---- MODULE Spec2Model ----
(***************************************************************************)
(* PhishGuard AI extension: the background service worker                  *)
(* (src/src/background.js), the in-page observer of the content script     *)
(* (src/src/content.js) and the reply parser, as a state machine.          *)
(*                                                                         *)
(* JavaScript numbers are held in fixed point: the number x is the integer *)
(* x * Unit, so that a fractional score of a model reply can be told from  *)
(* an integer one.  A text (a model reply) is a sequence of lexemes.       *)
(***************************************************************************)
EXTENDS Integers, Sequences, FiniteSets, TLC

\* Model units per 1.0 of a JavaScript number.
Unit == 2

\* The JavaScript integer literal n.
Js(n) == n * Unit

Min2(a, b) == IF a < b THEN a ELSE b
Max2(a, b) == IF a > b THEN a ELSE b

----------------------------------------------------------------------------
(* Texts.  A lexeme is a word/punctuation mark W(s) or a number literal    *)
(* N(n) (n in model units).                                                *)

W(s) == [k |-> "w", s |-> s, n |-> 0]
N(n) == [k |-> "n", s |-> "", n |-> n]

LBrace == W("{")
RBrace == W("}")
LBrack == W("[")
RBrack == W("]")
Comma  == W(",")
Colon  == W(":")
Quote  == W("\"")
\* The code-fence marks of a markdown reply: three backticks, alone or
\* followed by the word json.
Fence     == W("fence")
FenceJson == W("fence-json")

\* JavaScript values: t is the type tag; n the number (model units); s the
\* content of a string (lexemes); a the elements of an array (scalars).
JsNum(n)   == [t |-> "num", n |-> n, s |-> <<>>, a |-> <<>>]
JsNaN      == [t |-> "nan", n |-> 0, s |-> <<>>, a |-> <<>>]
JsStr(s)   == [t |-> "str", n |-> 0, s |-> s, a |-> <<>>]
JsBool(b)  == [t |-> "bool", n |-> IF b THEN 1 ELSE 0, s |-> <<>>, a |-> <<>>]
JsNull     == [t |-> "null", n |-> 0, s |-> <<>>, a |-> <<>>]
JsUndef    == [t |-> "undef", n |-> 0, s |-> <<>>, a |-> <<>>]
JsArr(a)   == [t |-> "arr", n |-> 0, s |-> <<>>, a |-> a]

\* ToBoolean: undefined, null, false, 0, NaN and "" are falsy.
Truthy(v) ==
    CASE v.t = "num"  -> v.n # 0
      [] v.t = "nan"  -> FALSE
      [] v.t = "str"  -> v.s # <<>>
      [] v.t = "bool" -> v.n = 1
      [] v.t = "null" -> FALSE
      [] v.t = "undef" -> FALSE
      [] OTHER -> TRUE

\* ToNumber: a string converts when it holds one number literal ("" is 0).
ToNumber(v) ==
    CASE v.t = "num"  -> v
      [] v.t = "nan"  -> v
      [] v.t = "str"  -> IF v.s = <<>> THEN JsNum(0)
                         ELSE IF Len(v.s) = 1 /\ v.s[1].k = "n" THEN JsNum(v.s[1].n)
                         ELSE JsNaN
      [] v.t = "bool" -> JsNum(Js(v.n))
      [] v.t = "null" -> JsNum(0)
      [] v.t = "arr"  -> IF v.a = <<>> THEN JsNum(0) ELSE JsNaN
      [] OTHER -> JsNaN

\* Math.max / Math.min of a value and a number literal: NaN is contagious.
NumMax(x, lit) == IF x.t = "nan" THEN JsNaN ELSE JsNum(Max2(x.n, lit))
NumMin(x, lit) == IF x.t = "nan" THEN JsNaN ELSE JsNum(Min2(x.n, lit))
MathMax(v, lit) == NumMax(ToNumber(v), lit)
MathMin(v, lit) == NumMin(ToNumber(v), lit)

----------------------------------------------------------------------------
(* JSON.  The subset read here: one object whose member values are scalars *)
(* (number, string, null, true, false) or arrays of scalars.  An object is *)
(* the sequence of its members, in text order.                             *)

\* JSON.stringify of a string and of a list of strings.
StrLit(s) == <<Quote>> \o s \o <<Quote>>

RECURSIVE StrList(_)
StrList(r) ==
    IF r = <<>> THEN <<>>
    ELSE IF Len(r) = 1 THEN StrLit(r[1])
    ELSE StrLit(r[1]) \o <<Comma>> \o StrList(Tail(r))

\* JSON.stringify({legitimacyScore: s, reasoning: r}), s a number, r strings.
Serialize(s, r) ==
    <<LBrace>> \o StrLit(<<W("legitimacyScore")>>) \o <<Colon, N(s), Comma>>
        \o StrLit(<<W("reasoning")>>) \o <<Colon, LBrack>> \o StrList(r)
        \o <<RBrack, RBrace>>

ReadFail == [ok |-> FALSE, v |-> JsUndef, next |-> 0]
ReadOk(v, next) == [ok |-> TRUE, v |-> v, next |-> next]

\* The least element of a set of indexes, 0 for the empty set.
Least(S) == IF S = {} THEN 0 ELSE CHOOSE j \in S : \A k \in S : j <= k
\* The greatest element of a set of indexes, 0 for the empty set.
Greatest(S) == IF S = {} THEN 0 ELSE CHOOSE j \in S : \A k \in S : k <= j

\* Index of the quote closing a string whose content starts at i; 0 if none.
StrClose(t, i) == Least({j \in i..Len(t) : t[j] = Quote})

\* A string literal whose opening quote is at i and closing quote at j.
ReadString(t, i, j) ==
    IF j = 0 THEN ReadFail ELSE ReadOk(JsStr(SubSeq(t, i + 1, j - 1)), j + 1)

ReadScalar(t, i) ==
    IF i > Len(t) THEN ReadFail
    ELSE IF t[i].k = "n" THEN ReadOk(JsNum(t[i].n), i + 1)
    ELSE IF t[i] = Quote THEN ReadString(t, i, StrClose(t, i + 1))
    ELSE IF t[i] = W("null") THEN ReadOk(JsNull, i + 1)
    ELSE IF t[i] = W("true") THEN ReadOk(JsBool(TRUE), i + 1)
    ELSE IF t[i] = W("false") THEN ReadOk(JsBool(FALSE), i + 1)
    ELSE ReadFail

RECURSIVE ReadElems(_, _, _)
\* The rest of an array after its element e.
ReadElemsAfter(t, acc, e) ==
    IF ~e.ok \/ e.next > Len(t) THEN ReadFail
    ELSE IF t[e.next] = Comma THEN ReadElems(t, e.next + 1, Append(acc, e.v))
    ELSE IF t[e.next] = RBrack THEN ReadOk(JsArr(Append(acc, e.v)), e.next + 1)
    ELSE ReadFail

ReadElems(t, i, acc) == ReadElemsAfter(t, acc, ReadScalar(t, i))

ReadValue(t, i) ==
    IF i > Len(t) THEN ReadFail
    ELSE IF t[i] = LBrack
         THEN IF i + 1 <= Len(t) /\ t[i + 1] = RBrack
              THEN ReadOk(JsArr(<<>>), i + 2)
              ELSE ReadElems(t, i + 1, <<>>)
    ELSE ReadScalar(t, i)

ObjFail == [ok |-> FALSE, obj |-> <<>>, next |-> 0]

RECURSIVE ReadMembers(_, _, _)
\* The rest of an object after the value val of its member named key.
ReadMembersAfter(t, acc, key, val) ==
    IF ~val.ok \/ val.next > Len(t) THEN ObjFail
    ELSE IF t[val.next] = Comma
         THEN ReadMembers(t, val.next + 1, Append(acc, [key |-> key.v.s, val |-> val.v]))
    ELSE IF t[val.next] = RBrace
         THEN [ok |-> TRUE, obj |-> Append(acc, [key |-> key.v.s, val |-> val.v]),
               next |-> val.next + 1]
    ELSE ObjFail

\* A member whose name was read as key.
ReadMember(t, acc, key) ==
    IF ~key.ok \/ key.v.t # "str" \/ key.next > Len(t) THEN ObjFail
    ELSE IF t[key.next] # Colon THEN ObjFail
    ELSE ReadMembersAfter(t, acc, key, ReadValue(t, key.next + 1))

ReadMembers(t, i, acc) == ReadMember(t, acc, ReadScalar(t, i))

\* An object read up to next must be the whole text.
WholeText(t, r) == [ok |-> r.ok /\ r.next = Len(t) + 1, obj |-> r.obj]

\* JSON.parse of a text that starts with "{": ok is FALSE where it throws.
JSONparse(t) ==
    IF Len(t) >= 2 /\ t[1] = LBrace /\ t[2] = RBrace
    THEN WholeText(t, [ok |-> TRUE, obj |-> <<>>, next |-> 3])
    ELSE IF Len(t) >= 1 /\ t[1] = LBrace THEN WholeText(t, ReadMembers(t, 2, <<>>))
    ELSE [ok |-> FALSE, obj |-> <<>>]

\* obj.name: the last member of that name, undefined if there is none.
Member(obj, i) == IF i = 0 THEN JsUndef ELSE obj[i].val
Get(obj, name) == Member(obj, Greatest({i \in 1..Len(obj) : obj[i].key = <<W(name)>>}))

----------------------------------------------------------------------------
(* GEMINI_CONFIG and the reply parser.                                     *)

ModelKeys == {"pro", "flash", "flashLite"}

\* GEMINI_CONFIG.models[key]; undefined ("none") for any other key.
Models(key) ==
    CASE key = "pro" -> "gemini-2.5-pro"
      [] key = "flash" -> "gemini-2.5-flash"
      [] key = "flashLite" -> "gemini-2.5-flash-lite"
      [] OTHER -> "none"

fallbackOrder == <<"pro", "flash", "flashLite">>

defaultModel == "flashLite"

getModelDisplayName(modelValue) ==
    CASE modelValue = "gemini-2.5-pro" -> "Gemini 2.5 Pro"
      [] modelValue = "gemini-2.5-flash" -> "Gemini 2.5 Flash"
      [] modelValue = "gemini-2.5-flash-lite" -> "Gemini 2.5 Flash Lite"
      [] OTHER -> modelValue

\* The replace of every code fence by the empty string, wherever it is.
Clean(text) == SelectSeq(text, LAMBDA x : x \notin {FenceJson, Fence})

\* The regular-expression match of cleanedResponse: from the first opening
\* brace to the last closing brace of the text (the quantifier is greedy);
\* the empty sequence where there is no match.
Between(t, first, last) ==
    IF first = 0 \/ last = 0 THEN <<>>
    ELSE IF first < last THEN SubSeq(t, first, last) ELSE <<>>

MatchObject(t) ==
    Between(t, Least({i \in 1..Len(t) : t[i] = LBrace}),
               Greatest({i \in 1..Len(t) : t[i] = RBrace}))

\* The watch-list terms that the lower-cased word contains as substrings.
TermsIn(word) ==
    CASE word \in {"phishing", "Phishing", "PHISHING"} -> {"phishing"}
      [] word \in {"suspicious", "Suspicious"} -> {"suspicious"}
      [] word \in {"malicious"} -> {"malicious"}
      [] word \in {"legitimate", "Legitimate", "illegitimate"} -> {"legitimate"}
      [] word \in {"safe", "Safe", "unsafe"} -> {"safe"}
      [] word \in {"trusted", "untrusted"} -> {"trusted"}
      [] OTHER -> {}

\* responseText.toLowerCase().includes(term)
Includes(text, term) == \E i \in 1..Len(text) : term \in TermsIn(text[i].s)

Reason(s) == JsStr(<<W(s)>>)

\* The result fallbackAnalysis returns for a score and its reason.
FallbackResult(url, currentModel, score, reason) ==
    [legitimacyScore |-> JsNum(Js(score)),
     reasoning |-> <<Reason(reason)>>,
     url |-> url,
     fallback |-> TRUE,
     modelUsed |-> currentModel,
     modelDisplayName |-> getModelDisplayName(currentModel)]

\* A fallback classifier that forgets to mark its result.
fallbackAnalysisUnmarked(url, responseText, currentModel) ==
    [FallbackResult(url, currentModel, 50, "Automated analysis based on response patterns")
        EXCEPT !.fallback = FALSE]

\* A fallback classifier that looks for the reassuring terms first.
fallbackAnalysisLegitFirst(url, responseText, currentModel) ==
    IF Includes(responseText, "legitimate") \/ Includes(responseText, "safe")
           \/ Includes(responseText, "trusted")
    THEN FallbackResult(url, currentModel, 65, "Content appears legitimate based on analysis")
    ELSE IF Includes(responseText, "phishing") \/ Includes(responseText, "suspicious")
                \/ Includes(responseText, "malicious")
    THEN FallbackResult(url, currentModel, 25, "Phishing indicators detected in content analysis")
    ELSE FallbackResult(url, currentModel, 50, "Automated analysis based on response patterns")

fallbackAnalysis(url, responseText, currentModel) ==
    IF Includes(responseText, "phishing") \/ Includes(responseText, "suspicious")
           \/ Includes(responseText, "malicious")
    THEN FallbackResult(url, currentModel, 25, "Phishing indicators detected in content analysis")
    ELSE IF Includes(responseText, "legitimate") \/ Includes(responseText, "safe")
                \/ Includes(responseText, "trusted")
    THEN FallbackResult(url, currentModel, 65, "Content appears legitimate based on analysis")
    ELSE FallbackResult(url, currentModel, 50, "Automated analysis based on response patterns")

\* parsed.legitimacyScore || 50
ScoreOrDefault(v) == IF Truthy(v) THEN v ELSE JsNum(Js(50))

\* Math.min(Math.max(parsed.legitimacyScore || 50, 0), 100)
ClampScore(v) == MathMin(MathMax(ScoreOrDefault(v), Js(0)), Js(100))

\* Array.isArray(parsed.reasoning) ? parsed.reasoning : ['Analysis completed']
ReasoningOf(v) == IF v.t = "arr" THEN v.a ELSE <<Reason("Analysis completed")>>

\* The result parseGeminiResponse builds from the parsed object.
ParsedResult(obj, url, currentModel) ==
    [legitimacyScore |-> ClampScore(Get(obj, "legitimacyScore")),
     reasoning |-> ReasoningOf(Get(obj, "reasoning")),
     url |-> url,
     fallback |-> FALSE,
     modelUsed |-> currentModel,
     modelDisplayName |-> getModelDisplayName(currentModel)]

\* parseGeminiResponse once JSON.parse returned or threw.
AfterParse(parsed, responseText, url, currentModel) ==
    IF ~parsed.ok THEN fallbackAnalysis(url, responseText, currentModel)
    ELSE ParsedResult(parsed.obj, url, currentModel)

\* parseGeminiResponse once the object was looked for in the cleaned text.
AfterMatch(jsonMatch, responseText, url, currentModel) ==
    IF jsonMatch = <<>> THEN fallbackAnalysis(url, responseText, currentModel)
    ELSE AfterParse(JSONparse(jsonMatch), responseText, url, currentModel)

\* A url whose hostname holds two of the keywords, and the keywords the
\* hostname of a url of the model holds.
UrlSecure == "https://secure-login.test/"
HostKeywords(url) == IF url = UrlSecure THEN {"secure", "login"} ELSE {}

\* isSuspiciousDomain(url)
isSuspiciousDomain(url) ==
    HostKeywords(url) \cap {"secure", "verify", "update", "account", "login", "signin"} # {}

\* A parser that takes the flag of the domain for a verdict.
parseGeminiResponseFlagged(responseText, url, currentModel) ==
    IF isSuspiciousDomain(url)
    THEN FallbackResult(url, currentModel, 25, "Phishing indicators detected in content analysis")
    ELSE AfterMatch(MatchObject(Clean(responseText)), responseText, url, currentModel)

parseGeminiResponse(responseText, url, currentModel) ==
    AfterMatch(MatchObject(Clean(responseText)), responseText, url, currentModel)

----------------------------------------------------------------------------
(* The background service worker, the tabs and the in-page observer.       *)

\* Bounds of the model.
MaxScans == 2
MaxPending == 1
MaxChanges == 1
MaxNav == 2

ScanIds == 1..MaxScans
Tabs == {1, 2}

UrlA == "https://a.test/"
UrlB == "https://b.test/login"
UrlX == "chrome://settings/"
Urls == {UrlA, UrlB, UrlX}

ApiKey == "AIza-key"

VARIABLES
    storage,          \* chrome.storage.sync
    changes,          \* storage.onChanged events not yet delivered
    nChanges,         \* the number of writes of settings so far
    geminiApiKey,     \* PhishGuardBackground fields
    safeThreshold,
    cautionThreshold,
    selectedModel,
    currentModel,
    scannedTabs,
    badge,            \* the action badge of each tab
    tabUrl,           \* the browser: each tab's top-level location
    activeTab,
    tabEvents,        \* tabs.onUpdated events carrying a url, not yet delivered
    nNav,             \* the number of navigations so far
    lastUrl,          \* content script: lastUrl of observePageChanges
    banner,           \* content script: the banner in the page
    urlMsgs,          \* 'urlChanged' runtime messages not yet delivered
    scans,            \* the invocations of scanPage
    ev,               \* the browser event the background handled last
    pIn,              \* a reply handed to the parser on its own
    pOut,
    popup             \* PopupManager: its thresholds and its saves under way

vars == <<storage, changes, nChanges, geminiApiKey, safeThreshold, cautionThreshold,
          selectedModel, currentModel, scannedTabs, badge, tabUrl, activeTab,
          tabEvents, nNav, lastUrl, banner, urlMsgs, scans, ev, pIn, pOut, popup>>

bgVars == <<geminiApiKey, safeThreshold, cautionThreshold, selectedModel, currentModel>>
pageVars == <<tabUrl, activeTab, tabEvents, nNav, lastUrl, banner, urlMsgs>>
parseVars == <<pIn, pOut>>

NoResult ==
    [legitimacyScore |-> JsUndef, reasoning |-> <<>>, url |-> "", fallback |-> FALSE,
     modelUsed |-> "none", modelDisplayName |-> "none"]

NoError == [kind |-> "none", cause |-> "none"]

NoEvent == [op |-> "none", tab |-> 0]

IdleScan ==
    [pc |-> "idle", tabId |-> 0, url |-> "", scanSource |-> "none",
     pageUrl |-> "", reqModel |-> "none", tried |-> <<>>, lastReply |-> "none",
     failKinds |-> {}, notices |-> <<>>, replyText |-> <<>>, result |-> NoResult,
     error |-> NoError, hist |-> <<>>]

NoBanner == [kind |-> "none", url |-> ""]

\* x || d for a stored number (0 stands for an absent value) or string.
OrNum(x, d) == IF x = 0 THEN d ELSE x
OrStr(x, d) == IF x = "none" THEN d ELSE x

isScannableUrl(url) == url \notin {"", UrlX}

\* score >= lit and score < lit for a result's score: false on NaN.
ScoreGe(score, lit) == score.t = "num" /\ score.n >= Js(lit)
ScoreLt(score, lit) == score.t = "num" /\ score.n < Js(lit)

\* A badge whose safe band starts above the safe threshold.
BadgeOfStrict(result, safe, caution) ==
    IF ScoreGe(result.legitimacyScore, safe + 1) THEN "safe"
    ELSE IF ScoreGe(result.legitimacyScore, caution) THEN "caution"
    ELSE "danger"

\* The badge updateBadge sets for a result under the thresholds.
BadgeOf(result, safe, caution) ==
    IF ScoreGe(result.legitimacyScore, safe) THEN "safe"
    ELSE IF ScoreGe(result.legitimacyScore, caution) THEN "caution"
    ELSE "danger"

\* The verdict saveToHistory records.
VerdictOf(result, safe, caution) ==
    IF ScoreGe(result.legitimacyScore, safe) THEN "Legitimate"
    ELSE IF ScoreGe(result.legitimacyScore, caution) THEN "Uncertain"
    ELSE "Phishing"

\* The verdict the popup's displayResults shows.
displayVerdict(result, safe, caution) ==
    IF ScoreGe(result.legitimacyScore, safe) THEN "Legitimate"
    ELSE IF ScoreGe(result.legitimacyScore, caution) THEN "Uncertain"
    ELSE "Phishing"

\* The banner message scanPage sends after a context-menu scan.
BannerOf(result, safe, caution) ==
    IF ScoreLt(result.legitimacyScore, caution) THEN "showPhishingWarning"
    ELSE IF ScoreLt(result.legitimacyScore, safe) THEN "showSuspiciousWarning"
    ELSE "showSafeIndicator"

\* Position of a key in fallbackOrder, 0 if it is not there.
IndexOf(key) == Least({i \in 1..Len(fallbackOrder) : fallbackOrder[i] = key})

\* The key whose model value is the given one, "none" if there is none.
KeyOf(model) ==
    IF \E k \in ModelKeys : Models(k) = model
    THEN CHOOSE k \in ModelKeys : Models(k) = model ELSE "none"

\* The model after the key in fallbackOrder; "none" stands for null.
NextAfter(currentModelKey, nextIndex) ==
    IF currentModelKey = "none" THEN "none"
    ELSE IF nextIndex <= Len(fallbackOrder) THEN Models(fallbackOrder[nextIndex])
    ELSE "none"

\* A successor that starts over at the head of the chain after its last tier.
getNextFallbackModelWrap(cur) ==
    IF NextAfter(KeyOf(cur), IndexOf(KeyOf(cur)) + 1) = "none"
    THEN Models(fallbackOrder[1])
    ELSE NextAfter(KeyOf(cur), IndexOf(KeyOf(cur)) + 1)

\* getNextFallbackModel() with this.currentModel = cur.
getNextFallbackModel(cur) == NextAfter(KeyOf(cur), IndexOf(KeyOf(cur)) + 1)

\* The remote replies: a non-2xx response, a 2xx response without generated
\* text, and 2xx responses with a generated text.
ReplyJson == Serialize(Js(20), <<<<W("a")>>>>)
ReplyProse == <<W("looks"), W("safe")>>
\* A text with an object that JSON.parse rejects: the member name is unquoted.
ReplyBroken == <<LBrace, W("legitimacyScore"), Colon, N(Js(20)), RBrace>>
Replies ==
    {[kind |-> "http", text |-> <<>>], [kind |-> "empty", text |-> <<>>],
     [kind |-> "text", text |-> ReplyJson], [kind |-> "text", text |-> ReplyProse],
     [kind |-> "text", text |-> ReplyBroken]}

\* The replies of the tier specification: one generated text is enough.
TierReplies == {r \in Replies : r.kind = "text" => r.text = ReplyJson}

\* The replies of the degradation specification: a failure, and every text.
DegradeReplies == {r \in Replies : r.kind # "empty"}

\* The replies and the urls of the navigation specification.
NavReplies == {r \in Replies : r.kind = "http" \/ r.text = ReplyJson}
NavUrls == {UrlA, UrlB}
NavTabs == {1}

\* The first 10 entries of a history.
Slice10(h) == SubSeq(h, 1, Min2(Len(h), 10))

InitStorage ==
    [geminiApiKey |-> "none", safeThreshold |-> 0, cautionThreshold |-> 0,
     selectedModel |-> "none", scanHistory |-> <<>>]

\* A handler of a url change that forgets the delete.
MapKeep(m, t) == m

\* scannedTabs.set(tabId, result) and scannedTabs.delete(tabId)
MapSet(m, t, r) == [x \in DOMAIN m \cup {t} |-> IF x = t THEN r ELSE m[x]]
MapDelete(m, t) == [x \in DOMAIN m \ {t} |-> m[x]]

\* The popup after loadStoredData: its copies of the thresholds and of the
\* history, no save under way, no slider moved yet, no scan requested (pc is
\* the await scanCurrentPage stands at, awaiting the scan it asked for).
loadStoredData(st) ==
    [safeThreshold |-> OrNum(st.safeThreshold, 80),
     cautionThreshold |-> OrNum(st.cautionThreshold, 50),
     scanHistory |-> st.scanHistory, isScanning |-> FALSE, awaiting |-> 0,
     pc |-> "idle", pending |-> <<>>, moves |-> 0]

\* The state after construction over one of the given contents of storage,
\* but for the reply handed to the parser.
Constructed(stores) ==
    /\ storage \in stores
    /\ changes = <<>>
    /\ nChanges = 0
    /\ geminiApiKey = storage.geminiApiKey
    /\ safeThreshold = OrNum(storage.safeThreshold, 80)
    /\ cautionThreshold = OrNum(storage.cautionThreshold, 50)
    /\ selectedModel = OrStr(storage.selectedModel, defaultModel)
    /\ currentModel = Models(selectedModel)
    /\ scannedTabs = <<>>
    /\ badge = [t \in Tabs |-> ""]
    /\ tabUrl = [t \in Tabs |-> UrlA]
    /\ activeTab = 1
    /\ tabEvents = [t \in Tabs |-> 0]
    /\ nNav = 0
    /\ lastUrl = [t \in Tabs |-> UrlA]
    /\ banner = [t \in Tabs |-> NoBanner]
    /\ urlMsgs = [t \in Tabs |-> 0]
    /\ scans = [s \in ScanIds |-> IdleScan]
    /\ ev = NoEvent
    /\ popup = loadStoredData(storage)

InitBackground ==
    Constructed({[InitStorage EXCEPT !.geminiApiKey = k, !.selectedModel = m] :
                     k \in {"none", ApiKey}, m \in {"none"} \cup ModelKeys})

Init ==
    /\ InitBackground
    /\ pIn = [text |-> ReplyProse, score |-> 0, reasoning |-> <<>>]
    /\ pOut = [done |-> FALSE, result |-> NoResult]

\* The next invocation of scanPage: invocations are numbered as they start.
NextScan(s) == scans[s].pc = "idle" /\ \A r \in ScanIds : r < s => scans[r].pc # "idle"

StartScan(s, t, source) ==
    scans' = [scans EXCEPT ![s] = [IdleScan EXCEPT !.pc = "load", !.tabId = t,
                                       !.url = tabUrl[t], !.scanSource = source]]

\* The popup's scan button: scanCurrentPage sends 'scanPage' for the active
\* tab, and handleMessage calls scanPage, which awaits loadSettings.  The
\* popup's isScanning flag dies with the popup, so a popup that is closed and
\* opened again starts a scan while the one before is still in flight.
PopupScan(s) ==
    /\ NextScan(s)
    /\ storage.geminiApiKey # "none"
    /\ StartScan(s, activeTab, "popup")
    /\ ev' = NoEvent
    /\ UNCHANGED <<popup, storage, changes, nChanges, bgVars, scannedTabs, badge, pageVars,
                   parseVars>>

\* handleContextMenuClick on the active tab (the menu is offered on http and
\* https pages only).
ContextMenuClick(s) ==
    /\ NextScan(s)
    /\ tabUrl[activeTab] # UrlX
    /\ IF geminiApiKey = "none"
       THEN /\ ev' = [op |-> "menuNoKey", tab |-> activeTab]
            /\ UNCHANGED scans
       ELSE IF ~isScannableUrl(tabUrl[activeTab])
       THEN /\ ev' = [op |-> "menuUnscannable", tab |-> activeTab]
            /\ UNCHANGED scans
       ELSE /\ ev' = NoEvent
            /\ StartScan(s, activeTab, "contextMenu")
    /\ UNCHANGED <<popup, storage, changes, nChanges, bgVars, scannedTabs, badge, pageVars,
                   parseVars>>

Fail(s, kind, cause) ==
    scans' = [scans EXCEPT ![s].pc = "failed", ![s].error = [kind |-> kind, cause |-> cause]]

\* A scanPage that goes on to the page without a look at the key.
ScanLoadedAnyKey(s) ==
    /\ scans[s].pc = "load"
    /\ \E ok \in BOOLEAN :
         /\ geminiApiKey' = IF ok THEN storage.geminiApiKey ELSE geminiApiKey
         /\ safeThreshold' = IF ok THEN OrNum(storage.safeThreshold, 80) ELSE safeThreshold
         /\ cautionThreshold' = IF ok THEN OrNum(storage.cautionThreshold, 50) ELSE cautionThreshold
         /\ selectedModel' = IF ok THEN OrStr(storage.selectedModel, defaultModel) ELSE selectedModel
    /\ currentModel' = Models(selectedModel')
    /\ IF ~isScannableUrl(scans[s].url) THEN Fail(s, "Cannot scan this type of page", "none")
       ELSE scans' = [scans EXCEPT ![s].pc = "extract"]
    /\ ev' = NoEvent
    /\ UNCHANGED <<popup, storage, changes, nChanges, scannedTabs, badge, pageVars, parseVars>>

\* scanPage after its await of loadSettings: the settings are read from
\* storage (or left alone when the read fails), the tier cursor is set to the
\* selected model, the key and the url are checked, and getPageContent starts.
ScanLoaded(s) ==
    /\ scans[s].pc = "load"
    /\ \E ok \in BOOLEAN :
         /\ geminiApiKey' = IF ok THEN storage.geminiApiKey ELSE geminiApiKey
         /\ safeThreshold' = IF ok THEN OrNum(storage.safeThreshold, 80) ELSE safeThreshold
         /\ cautionThreshold' = IF ok THEN OrNum(storage.cautionThreshold, 50) ELSE cautionThreshold
         /\ selectedModel' = IF ok THEN OrStr(storage.selectedModel, defaultModel) ELSE selectedModel
    /\ currentModel' = Models(selectedModel')
    /\ IF geminiApiKey' = "none" THEN Fail(s, "API key not configured", "none")
       ELSE IF ~isScannableUrl(scans[s].url) THEN Fail(s, "Cannot scan this type of page", "none")
       ELSE scans' = [scans EXCEPT ![s].pc = "extract"]
    /\ ev' = NoEvent
    /\ UNCHANGED <<popup, storage, changes, nChanges, scannedTabs, badge, pageVars, parseVars>>

\* What the page-reading calls of one extraction turn out to do: the primary
\* and the fallback executeScript return a result ("ok"), return none, or
\* throw; chrome.tabs.get returns the tab or throws.  fb1/get1 belong to the
\* call of fallbackPageExtraction in the try block of getPageContent, fb2/get2
\* to the call in its catch block.
ExtractOutcomes ==
    [primary : {"ok", "none", "throw"}, fb1 : {"ok", "none", "throw"}, get1 : {"ok", "throw"},
     fb2 : {"ok", "none", "throw"}, get2 : {"ok", "throw"}]

\* fallbackPageExtraction: the extraction method of the snapshot returned,
\* "error" where it throws.
fallbackPageExtraction(fb, get) ==
    IF fb = "ok" THEN "fallback"
    ELSE IF fb = "throw" THEN "error"
    ELSE IF get = "ok" THEN "minimal-tab-info" ELSE "error"

\* getPageContent: the extraction method of the snapshot returned, "error"
\* where it throws.
getPageContent(o) ==
    IF o.primary = "ok" THEN "primary"
    ELSE IF o.primary = "none" /\ fallbackPageExtraction(o.fb1, o.get1) # "error"
    THEN fallbackPageExtraction(o.fb1, o.get1)
    ELSE fallbackPageExtraction(o.fb2, o.get2)

\* scanPage after getPageContent: on a snapshot, analyzeWithGemini builds the
\* prompt and sends the request to this.currentModel.
Extracted(s) ==
    /\ scans[s].pc = "extract"
    /\ \E method \in {getPageContent(o) : o \in ExtractOutcomes} :
         IF method = "error"
         THEN Fail(s, "Failed to extract page content", "none")
         ELSE scans' = [scans EXCEPT ![s].pc = "fetch",
                                     ![s].pageUrl = tabUrl[scans[s].tabId],
                                     ![s].reqModel = currentModel,
                                     ![s].tried = <<currentModel>>]
    /\ ev' = NoEvent
    /\ UNCHANGED <<popup, storage, changes, nChanges, bgVars, scannedTabs, badge, pageVars,
                   parseVars>>

\* A check of the reply that misses the test of the generated text.
ReplyFailsHttpOnly(r) == r.kind = "http"

\* Whether a reply makes analyzeWithGemini throw: !response.ok, or no
\* generated text.
ReplyFails(r) == r.kind \in {"http", "empty"}

\* The message of the error a failed reply raises.
ReplyError(r) == IF r.kind = "http" THEN "API request failed" ELSE "No response from Gemini API"

\* An exhaustion error that names the transport failure whatever was caught.
AllFailedGeneric(error) == [kind |-> "All Gemini models failed", cause |-> "API request failed"]

\* The error analyzeWithGemini throws when no tier is left: it carries the
\* message of the error caught by this invocation.
AllFailed(error) == [kind |-> "All Gemini models failed", cause |-> error]

\* A catch branch that drops the tab's entry and badge when it gives up.
CatchBranchClearing(s, r, nextModel) ==
    /\ IF nextModel # "none"
       THEN /\ currentModel' = nextModel
            /\ scans' = [scans EXCEPT
                  ![s].reqModel = nextModel,
                  ![s].tried = Append(@, nextModel),
                  ![s].lastReply = r.kind,
                  ![s].failKinds = @ \cup {r.kind},
                  ![s].notices = Append(@, [from |-> getModelDisplayName(currentModel),
                                            to |-> getModelDisplayName(nextModel),
                                            tab |-> activeTab])]
            /\ UNCHANGED <<scannedTabs, badge>>
       ELSE /\ currentModel' = Models(selectedModel)
            /\ scans' = [scans EXCEPT ![s].pc = "failed",
                                      ![s].lastReply = r.kind,
                                      ![s].failKinds = @ \cup {r.kind},
                                      ![s].error = AllFailed(ReplyError(r))]
            /\ scannedTabs' = MapDelete(scannedTabs, scans[s].tabId)
            /\ badge' = [badge EXCEPT ![scans[s].tabId] = ""]
    /\ UNCHANGED <<popup, geminiApiKey, safeThreshold, cautionThreshold, selectedModel>>

\* analyzeWithGemini on a failed reply (the catch branch): advance the shared
\* cursor to the next tier, notify and retry, or give up.
CatchBranch(s, r, nextModel) ==
    /\ IF nextModel # "none"
       THEN /\ currentModel' = nextModel
            /\ scans' = [scans EXCEPT
                  ![s].reqModel = nextModel,
                  ![s].tried = Append(@, nextModel),
                  ![s].lastReply = r.kind,
                  ![s].failKinds = @ \cup {r.kind},
                  ![s].notices = Append(@, [from |-> getModelDisplayName(currentModel),
                                            to |-> getModelDisplayName(nextModel),
                                            tab |-> activeTab])]
       ELSE /\ currentModel' = Models(selectedModel)
            /\ scans' = [scans EXCEPT ![s].pc = "failed",
                                      ![s].lastReply = r.kind,
                                      ![s].failKinds = @ \cup {r.kind},
                                      ![s].error = AllFailed(ReplyError(r))]
    /\ UNCHANGED <<popup, geminiApiKey, safeThreshold, cautionThreshold, selectedModel,
                   scannedTabs, badge>>

ReplyFailure(s, r) ==
    /\ ReplyFails(r)
    /\ CatchBranch(s, r, getNextFallbackModel(currentModel))

\* A scanPage that keeps the entry a tab already has.
StoreResultOnce(s, r, result) ==
    /\ scannedTabs' = IF scans[s].tabId \in DOMAIN scannedTabs THEN scannedTabs
                      ELSE MapSet(scannedTabs, scans[s].tabId, result)
    /\ badge' = [badge EXCEPT ![scans[s].tabId] =
                     BadgeOf(result, safeThreshold, cautionThreshold)]
    /\ scans' = [scans EXCEPT
          ![s].pc = IF scans[s].scanSource = "contextMenu" THEN "history" ELSE "done",
          ![s].lastReply = r.kind,
          ![s].replyText = r.text,
          ![s].result = result]

\* scanPage once analyzeWithGemini returned the result: it is stored and
\* badged, and a context-menu scan goes on to save it to the history.
StoreResult(s, r, result) ==
    /\ scannedTabs' = MapSet(scannedTabs, scans[s].tabId, result)
    /\ badge' = [badge EXCEPT ![scans[s].tabId] =
                     BadgeOf(result, safeThreshold, cautionThreshold)]
    /\ scans' = [scans EXCEPT
          ![s].pc = IF scans[s].scanSource = "contextMenu" THEN "history" ELSE "done",
          ![s].lastReply = r.kind,
          ![s].replyText = r.text,
          ![s].result = result]

\* analyzeWithGemini on a generated text: the reply is parsed, with the model
\* the shared cursor names at that moment recorded as the model used.
ReplySuccess(s, r) ==
    /\ ~ReplyFails(r)
    /\ StoreResult(s, r, parseGeminiResponse(r.text, scans[s].pageUrl, currentModel))
    /\ UNCHANGED bgVars

\* The reply r of the remote model to the request in flight.
Reply(s, r) ==
    /\ scans[s].pc = "fetch"
    /\ ReplyFailure(s, r) \/ ReplySuccess(s, r)
    /\ ev' = NoEvent
    /\ UNCHANGED <<popup, storage, changes, nChanges, pageVars, parseVars>>

\* The entry saveToHistory makes of a result.
HistoryItem(result, safe, caution) ==
    [url |-> result.url, verdict |-> VerdictOf(result, safe, caution),
     legitimacyScore |-> result.legitimacyScore]

\* saveToHistory after its read of storage: the entry is put first, the list
\* is cut to 10 and handed to storage.set.
HistoryRead(s) ==
    /\ scans[s].pc = "history"
    /\ scans' = [scans EXCEPT
          ![s].pc = "banner",
          ![s].hist = Slice10(<<HistoryItem(scans[s].result, safeThreshold, cautionThreshold)>>
                                  \o storage.scanHistory)]
    /\ ev' = NoEvent
    /\ UNCHANGED <<popup, storage, changes, nChanges, bgVars, scannedTabs, badge, pageVars,
                   parseVars>>

\* The write of the history lands, and scanPage sends the banner of the
\* result's band to the scanned tab, whose content script shows it.
HistorySaved(s) ==
    /\ scans[s].pc = "banner"
    /\ storage' = [storage EXCEPT !.scanHistory = scans[s].hist]
    /\ banner' = [banner EXCEPT ![scans[s].tabId] =
                      [kind |-> BannerOf(scans[s].result, safeThreshold, cautionThreshold),
                       url |-> scans[s].result.url]]
    /\ scans' = [scans EXCEPT ![s].pc = "done"]
    /\ ev' = NoEvent
    /\ UNCHANGED <<popup, changes, nChanges, bgVars, scannedTabs, badge, tabUrl, activeTab,
                   tabEvents, nNav, lastUrl, urlMsgs, parseVars>>

\* A storage.onChanged event: the keys that changed and their new values.
Change(key, value) == [key |-> key, newValue |-> value]

\* The popup saves the API key or the selected model (chrome.storage.sync.set).
StorageSet ==
    /\ nChanges < MaxChanges
    /\ nChanges' = nChanges + 1
    /\ \/ /\ storage.geminiApiKey = "none"
          /\ storage' = [storage EXCEPT !.geminiApiKey = ApiKey]
          /\ changes' = Append(changes, Change("geminiApiKey", ApiKey))
       \/ \E m \in ModelKeys :
            /\ storage.geminiApiKey # "none"
            /\ m # storage.selectedModel
            /\ storage' = [storage EXCEPT !.selectedModel = m]
            /\ changes' = Append(changes, Change("selectedModel", m))
    /\ ev' = NoEvent
    /\ UNCHANGED <<popup, bgVars, scannedTabs, badge, pageVars, scans, parseVars>>

\* handleStorageChange(changes, 'sync'): one event carries the keys that one
\* storage.set changed ("thresholds" stands for both thresholds at once).
handleStorageChange ==
    /\ changes # <<>>
    /\ \E c \in {Head(changes)} :
           /\ geminiApiKey' = IF c.key = "geminiApiKey" THEN c.newValue ELSE geminiApiKey
           /\ safeThreshold' =
                 CASE c.key = "safeThreshold" -> c.newValue
                   [] c.key = "thresholds" -> c.newValue.safeThreshold
                   [] OTHER -> safeThreshold
           /\ cautionThreshold' =
                 CASE c.key = "cautionThreshold" -> c.newValue
                   [] c.key = "thresholds" -> c.newValue.cautionThreshold
                   [] OTHER -> cautionThreshold
           /\ selectedModel' = IF c.key = "selectedModel" THEN c.newValue ELSE selectedModel
           /\ currentModel' = IF c.key = "selectedModel" THEN Models(c.newValue) ELSE currentModel
    /\ changes' = Tail(changes)
    /\ ev' = NoEvent
    /\ UNCHANGED <<popup, storage, nChanges, scannedTabs, badge, pageVars, scans, parseVars>>

\* The tab goes to another url: a full load starts a new page (and a new
\* content script), a same-document change keeps the page.
Navigate(t, u, sameDocument) ==
    /\ u # tabUrl[t]
    /\ tabEvents[t] < MaxPending
    /\ nNav < MaxNav
    /\ nNav' = nNav + 1
    /\ sameDocument => (u # UrlX /\ tabUrl[t] # UrlX)
    /\ tabUrl' = [tabUrl EXCEPT ![t] = u]
    /\ tabEvents' = [tabEvents EXCEPT ![t] = @ + 1]
    /\ IF sameDocument
       THEN UNCHANGED <<popup, lastUrl, banner, urlMsgs>>
       ELSE /\ lastUrl' = [lastUrl EXCEPT ![t] = u]
            /\ banner' = [banner EXCEPT ![t] = NoBanner]
            /\ UNCHANGED urlMsgs
    /\ ev' = NoEvent
    /\ UNCHANGED <<popup, storage, changes, nChanges, bgVars, scannedTabs, badge, activeTab, scans,
                   parseVars>>

\* observePageChanges: the MutationObserver callback of the page in tab t.
observePageChanges(t) ==
    /\ tabUrl[t] # lastUrl[t]
    /\ urlMsgs[t] < MaxPending
    /\ lastUrl' = [lastUrl EXCEPT ![t] = tabUrl[t]]
    /\ banner' = [banner EXCEPT ![t] = NoBanner]
    /\ urlMsgs' = [urlMsgs EXCEPT ![t] = @ + 1]
    /\ ev' = NoEvent
    /\ UNCHANGED <<popup, storage, changes, nChanges, bgVars, scannedTabs, badge, tabUrl, activeTab,
                   tabEvents, nNav, scans, parseVars>>

\* handleMessage on the content script's 'urlChanged' message: no case of the
\* switch names it, so the default answers { error: 'Unknown action' }.
handleMessageUrlChanged(t) ==
    /\ urlMsgs[t] > 0
    /\ urlMsgs' = [urlMsgs EXCEPT ![t] = @ - 1]
    /\ ev' = [op |-> "urlChanged", tab |-> t]
    /\ UNCHANGED <<popup, storage, changes, nChanges, bgVars, scannedTabs, badge, tabUrl, activeTab,
                   tabEvents, nNav, lastUrl, banner, scans, parseVars>>

\* handleTabUpdated(tabId, changeInfo, tab) when changeInfo.url is set, and
\* when it is not (a status or title change).
handleTabUpdated(t, hasUrl) ==
    /\ IF hasUrl
       THEN /\ tabEvents[t] > 0
            /\ tabEvents' = [tabEvents EXCEPT ![t] = @ - 1]
            /\ scannedTabs' = MapDelete(scannedTabs, t)
            /\ badge' = [badge EXCEPT ![t] = ""]
            /\ ev' = [op |-> "tabUpdatedUrl", tab |-> t]
       ELSE /\ ev' = NoEvent
            /\ UNCHANGED <<tabEvents, scannedTabs, badge>>
    /\ UNCHANGED <<popup, storage, changes, nChanges, bgVars, tabUrl, activeTab, nNav, lastUrl,
                   banner, urlMsgs, scans, parseVars>>

\* An activation that shows the badge again as it was set by the scan.
handleTabActivatedBaked(t) ==
    /\ t # activeTab
    /\ activeTab' = t
    /\ badge' = [badge EXCEPT ![t] = IF t \in DOMAIN scannedTabs THEN @ ELSE ""]
    /\ ev' = [op |-> "tabActivated", tab |-> t]
    /\ UNCHANGED <<popup, storage, changes, nChanges, bgVars, scannedTabs, tabUrl, tabEvents,
                   nNav, lastUrl, banner, urlMsgs, scans, parseVars>>

\* The user switches to tab t: handleTabActivated({tabId: t}).
handleTabActivated(t) ==
    /\ t # activeTab
    /\ activeTab' = t
    /\ badge' = [badge EXCEPT ![t] =
                    IF t \in DOMAIN scannedTabs
                    THEN BadgeOf(scannedTabs[t], safeThreshold, cautionThreshold) ELSE ""]
    /\ ev' = [op |-> "tabActivated", tab |-> t]
    /\ UNCHANGED <<popup, storage, changes, nChanges, bgVars, scannedTabs, tabUrl, tabEvents, nNav,
                   lastUrl, banner, urlMsgs, scans, parseVars>>

\* parseGeminiResponse on the reply pIn, for the url of a page and the model
\* the cursor names.
ParseReply ==
    /\ ~pOut.done
    /\ pOut' = [done |-> TRUE, result |-> parseGeminiResponse(pIn.text, UrlA, currentModel)]
    /\ ev' = NoEvent
    /\ UNCHANGED <<popup, storage, changes, nChanges, bgVars, scannedTabs, badge, pageVars, scans,
                   pIn>>

Next ==
    \/ ParseReply
    \/ \E s \in ScanIds : PopupScan(s)
    \/ \E s \in ScanIds : ContextMenuClick(s)
    \/ \E s \in ScanIds : ScanLoaded(s)
    \/ \E s \in ScanIds : Extracted(s)
    \/ \E s \in ScanIds, r \in Replies : Reply(s, r)
    \/ \E s \in ScanIds : HistoryRead(s)
    \/ \E s \in ScanIds : HistorySaved(s)
    \/ StorageSet
    \/ handleStorageChange
    \/ \E t \in Tabs, u \in Urls, d \in BOOLEAN : Navigate(t, u, d)
    \/ \E t \in Tabs : observePageChanges(t)
    \/ \E t \in Tabs : handleMessageUrlChanged(t)
    \/ \E t \in Tabs, h \in BOOLEAN : handleTabUpdated(t, h)
    \/ \E t \in Tabs : handleTabActivated(t)

Spec == Init /\ [][Next]_vars

\* The scans and the settings, with every tab staying where it is.
NextTier ==
    \/ \E s \in ScanIds : PopupScan(s)
    \/ \E s \in ScanIds : ScanLoaded(s)
    \/ \E s \in ScanIds : Extracted(s)
    \/ \E s \in ScanIds, r \in TierReplies : Reply(s, r)
    \/ StorageSet
    \/ handleStorageChange

SpecTier == Init /\ [][NextTier]_vars

\* The scans and the navigation of the active tab, with the settings staying
\* as they are.
NextNav ==
    \/ \E s \in ScanIds : PopupScan(s)
    \/ \E s \in ScanIds : ContextMenuClick(s)
    \/ \E s \in ScanIds : ScanLoaded(s)
    \/ \E s \in ScanIds : Extracted(s)
    \/ \E s \in ScanIds, r \in NavReplies : Reply(s, r)
    \/ \E s \in ScanIds : HistoryRead(s)
    \/ \E s \in ScanIds : HistorySaved(s)
    \/ \E t \in NavTabs, u \in NavUrls, d \in BOOLEAN : Navigate(t, u, d)
    \/ \E t \in NavTabs : observePageChanges(t)
    \/ \E t \in NavTabs : handleMessageUrlChanged(t)
    \/ \E t \in NavTabs, h \in BOOLEAN : handleTabUpdated(t, h)

\* An installed extension: the key is stored, no model was ever selected.
InitNav == Init /\ storage.geminiApiKey = ApiKey /\ storage.selectedModel = "none"

SpecNav == InitNav /\ [][NextNav]_vars

\* One scan at a time: a scan starts, and a change of the settings is
\* delivered, only while no scan is in flight.
InFlight(s) == scans[s].pc \in {"load", "extract", "fetch", "history", "banner"}
Quiet == \A s \in ScanIds : ~InFlight(s)

SoloScan(s) == Quiet /\ PopupScan(s)
SoloStorageChange == Quiet /\ handleStorageChange

NextSolo ==
    \/ \E s \in ScanIds : SoloScan(s)
    \/ \E s \in ScanIds : ScanLoaded(s)
    \/ \E s \in ScanIds : Extracted(s)
    \/ \E s \in ScanIds, r \in TierReplies : Reply(s, r)
    \/ StorageSet
    \/ SoloStorageChange

SpecSolo == Init /\ [][NextSolo]_vars

\* One scan at a time, with the settings changing at any moment of it.
NextSeq ==
    \/ \E s \in ScanIds : SoloScan(s)
    \/ \E s \in ScanIds : ScanLoaded(s)
    \/ \E s \in ScanIds : Extracted(s)
    \/ \E s \in ScanIds, r \in TierReplies : Reply(s, r)
    \/ StorageSet
    \/ handleStorageChange

SpecSeq == Init /\ [][NextSeq]_vars

\* One scan at a time, with replies that the parser cannot read as JSON.
NextDegrade ==
    \/ \E s \in ScanIds : SoloScan(s)
    \/ \E s \in ScanIds : ScanLoaded(s)
    \/ \E s \in ScanIds : Extracted(s)
    \/ \E s \in ScanIds, r \in DegradeReplies : Reply(s, r)

SpecDegrade == Init /\ [][NextDegrade]_vars

\* The scan store of a tab under the popup's scans and the tab's navigation.
NextStore ==
    \/ \E s \in ScanIds : PopupScan(s)
    \/ \E s \in ScanIds : ScanLoaded(s)
    \/ \E s \in ScanIds : Extracted(s)
    \/ \E s \in ScanIds, r \in NavReplies : Reply(s, r)
    \/ \E t \in NavTabs, u \in NavUrls, d \in BOOLEAN : Navigate(t, u, d)
    \/ \E t \in NavTabs : observePageChanges(t)
    \/ \E t \in NavTabs : handleMessageUrlChanged(t)
    \/ \E t \in NavTabs, h \in BOOLEAN : handleTabUpdated(t, h)

SpecStore == InitNav /\ [][NextStore]_vars

\* The parser on its own: the replies are the serialized objects of a raw
\* score (whole or fractional, from below 0 to above 100) and a list of
\* reasons.
MaxReasons == 3
MaxOver == 5

Strs == {<<W("a")>>, <<W("b")>>}
ReasonLists == UNION {[1..n -> Strs] : n \in 0..MaxReasons}
RawScores == (0 - Js(MaxOver))..Js(100 + MaxOver)

InitParse ==
    /\ InitBackground
    /\ storage = InitStorage
    /\ pIn \in {[text |-> Serialize(x, r), score |-> x, reasoning |-> r] :
                    x \in RawScores, r \in ReasonLists}
    /\ pOut = [done |-> FALSE, result |-> NoResult]

NextParse == ParseReply

SpecParse == InitParse /\ [][NextParse]_vars

\* The parser on replies of every shape.  JSON.stringify of a scalar, of the
\* elements of an array and of a value.
Scalar(v) ==
    CASE v.t = "num" -> <<N(v.n)>>
      [] v.t = "str" -> StrLit(v.s)
      [] v.t = "bool" -> IF v.n = 1 THEN <<W("true")>> ELSE <<W("false")>>
      [] OTHER -> <<W("null")>>

RECURSIVE ElemList(_)
ElemList(a) ==
    IF a = <<>> THEN <<>>
    ELSE IF Len(a) = 1 THEN Scalar(a[1])
    ELSE Scalar(a[1]) \o <<Comma>> \o ElemList(Tail(a))

Stringify(v) == IF v.t = "arr" THEN <<LBrack>> \o ElemList(v.a) \o <<RBrack>> ELSE Scalar(v)

\* JSON.stringify of an object with the members legitimacyScore and
\* reasoning; a member whose value is undefined is left out.
MemberText(name, v) == IF v.t = "undef" THEN <<>> ELSE StrLit(<<W(name)>>) \o <<Colon>> \o Stringify(v)
ObjectText(score, reasoning) ==
    <<LBrace>> \o MemberText("legitimacyScore", score)
        \o (IF score.t = "undef" \/ reasoning.t = "undef" THEN <<>> ELSE <<Comma>>)
        \o MemberText("reasoning", reasoning) \o <<RBrace>>

\* The values a reply may give as its score: numbers, strings that are and
\* are not numeric, null, the booleans, an array, and no member at all.
MaxListed == 4

ScoreValues ==
    {JsNum(x) : x \in RawScores}
        \cup {JsUndef, JsNull, JsBool(TRUE), JsBool(FALSE), JsArr(<<>>), JsStr(<<>>),
              JsStr(<<W("high")>>), JsStr(<<N(Js(72))>>)}

\* The values a reply may give as its reasoning: lists of strings, a string,
\* and no member at all.
ListedReasons(n) == [i \in 1..n |-> JsStr(<<W("a")>>)]
ReasoningValues ==
    {JsArr(ListedReasons(n)) : n \in 0..MaxListed} \cup {JsUndef, JsStr(<<W("a")>>)}

ObjectReplies ==
    {[shape |-> "object", text |-> ObjectText(v, r), raw |-> v, listed |-> r] :
         v \in ScoreValues, r \in ReasoningValues}

\* Replies in prose: up to MaxWords words, in any case, some of them holding a
\* term of the fallback classifier inside a longer word.
MaxWords == 2
Words ==
    {"looks", "phishing", "PHISHING", "Suspicious", "malicious", "legitimate",
     "illegitimate", "Safe", "unsafe", "trusted"}
Prose == UNION {[1..n -> {W(w) : w \in Words}] : n \in 1..MaxWords}
ProseReplies ==
    {[shape |-> "prose", text |-> t, raw |-> JsUndef, listed |-> JsUndef] : t \in Prose}

\* Replies with an object that JSON.parse rejects: bare words between braces.
BrokenReplies ==
    {[shape |-> "broken", text |-> <<LBrace>> \o t \o <<RBrace>>, raw |-> JsUndef,
      listed |-> JsUndef] : t \in Prose}

\* Replies with a valid object and text after it: a remark, a remark with a
\* closing brace, a second object.
Tails ==
    {<<W("looks"), W("legitimate")>>, <<W("see"), LBrace, W("note"), RBrace>>,
     <<W("or"), RBrace>>, ObjectText(JsNum(Js(20)), JsArr(<<>>))}
TrailingReplies ==
    {[shape |-> "trailing", text |-> ObjectText(v, JsArr(ListedReasons(1))) \o t,
      raw |-> v, listed |-> JsArr(ListedReasons(1))] :
         v \in {JsNum(Js(80)), JsNum(Js(10))}, t \in Tails}

ReplyInputs == ObjectReplies \cup ProseReplies \cup BrokenReplies \cup TrailingReplies

InitReply ==
    /\ InitBackground
    /\ storage = InitStorage
    /\ pIn \in ReplyInputs
    /\ pOut = [done |-> FALSE, result |-> NoResult]

NextReply == ParseReply

SpecReply == InitReply /\ [][NextReply]_vars

----------------------------------------------------------------------------
(* Properties.                                                             *)

\* The place of a model in the fallback chain, 0 if it is not in it.
TierIndex(model) == IndexOf(KeyOf(model))
LastTier == Models(fallbackOrder[Len(fallbackOrder)])
FailureKinds == {"http", "empty"}

\* C1: once every url change of a tab was handled, the result cached for
\* the tab is a result for the tab's current url, and so is the banner shown
\* in its page once the page's observer has caught up with the location.
C1_CurrentUrl ==
    \A t \in Tabs :
        /\ (t \in DOMAIN scannedTabs /\ tabEvents[t] = 0) => scannedTabs[t].url = tabUrl[t]
        /\ (banner[t].kind # "none" /\ lastUrl[t] = tabUrl[t]) => banner[t].url = tabUrl[t]

\* C2: a scan that runs alone requests the tiers of the chain one after the
\* other, each the successor of the one before (so none twice), and a result
\* names the tier requested last: the last tier of the chain when every tier
\* before it failed.
C2_InOrder ==
    \A s \in ScanIds :
        /\ \A i \in 1..Len(scans[s].tried) :
               TierIndex(scans[s].tried[i]) \in 1..Len(fallbackOrder)
        /\ \A i \in 1..(Len(scans[s].tried) - 1) :
               TierIndex(scans[s].tried[i + 1]) = TierIndex(scans[s].tried[i]) + 1
        /\ scans[s].result # NoResult =>
               /\ scans[s].result.modelUsed = scans[s].tried[Len(scans[s].tried)]
               /\ TierIndex(scans[s].tried[1]) + Len(scans[s].tried) = Len(fallbackOrder) + 1
                      => scans[s].result.modelUsed = LastTier

\* C2: the first request of a scan goes to the selected tier, whatever tier
\* the scan before it ended on.
C2_Start ==
    \A s \in ScanIds :
        (scans[s].pc = "extract" /\ scans'[s].pc = "fetch")
            => scans'[s].tried = <<Models(selectedModel)>>

\* C2: within one scan that runs alone the tiers are attempted in the
\* fallback order, beginning at the selected tier, each at most once.
C2_FallbackOrder == []C2_InOrder /\ [][C2_Start]_vars

\* C2: two scans from the first tier of the chain, one after the other, each
\* of which got its result from the last tier.
C2_Witness ==
    /\ scans[1].pc = "done" /\ Len(scans[1].tried) = Len(fallbackOrder)
    /\ scans[2].pc = "done" /\ Len(scans[2].tried) = Len(fallbackOrder)
    /\ scans[2].tried[1] = Models("pro")
    /\ scans[2].result.modelUsed = LastTier

\* C3: with scans in flight together or a change of the selected model during
\* a scan, no scan requests a tier twice, and the model a result records is
\* the tier whose reply it was parsed from.
C3_ScanLocal ==
    \A s \in ScanIds :
        /\ \A i, j \in 1..Len(scans[s].tried) :
               i # j => scans[s].tried[i] # scans[s].tried[j]
        /\ scans[s].result # NoResult => scans[s].result.modelUsed = scans[s].reqModel

\* C4: a scan advances to a next tier at most N-1 times for a chain of N
\* tiers, and never requests a tier that comes earlier in the chain than one
\* it requested before.
C4_BoundedAdvance ==
    \A s \in ScanIds :
        /\ scans[s].tried # <<>> => Len(scans[s].tried) - 1 <= Len(fallbackOrder) - 1
        /\ \A i, j \in 1..Len(scans[s].tried) :
               i < j => TierIndex(scans[s].tried[i]) <= TierIndex(scans[s].tried[j])

\* C5: a failure that finds the cursor on the last tier ends the scan, and a
\* scan ended by the exhaustion of the chain carries the message of the
\* failure that ended it, leaves the cursor on the selected tier and writes
\* neither the store nor the badge.
C5_Exhaust ==
    \A s \in ScanIds :
        /\ (/\ scans[s].pc = "fetch"
            /\ scans'[s] # scans[s]
            /\ scans'[s].result = NoResult
            /\ TierIndex(currentModel) = Len(fallbackOrder))
               => scans'[s].pc = "failed"
        /\ (scans[s].pc = "fetch" /\ scans'[s].pc = "failed")
               => /\ scans'[s].error.kind = "All Gemini models failed"
                  /\ scans'[s].error.cause =
                         ReplyError([kind |-> scans'[s].lastReply, text |-> <<>>])
                  /\ currentModel' = Models(selectedModel)
                  /\ scannedTabs' = scannedTabs
                  /\ badge' = badge
        /\ scans[s].pc = "failed" => scans'[s] = scans[s]

\* C5: a scan that failed has no result.
C5_NoResult ==
    \A s \in ScanIds : scans[s].pc = "failed" => scans[s].result = NoResult

C6_NoResult ==
    \A s \in ScanIds :
        /\ scans[s].lastReply \in FailureKinds =>
               /\ scans[s].result = NoResult
               /\ \/ /\ scans[s].pc = "fetch"
                     /\ Len(scans[s].tried) >= 2
                     /\ scans[s].error = NoError
                  \/ /\ scans[s].pc = "failed"
                     /\ scans[s].error.kind = "All Gemini models failed"
        /\ scans[s].lastReply = "text" =>
               /\ scans[s].pc \in {"done", "history", "banner"}
               /\ scans[s].result # NoResult
               /\ scans[s].error = NoError

\* C6: a failed reply of either kind, with a tier left after the cursor's,
\* moves the cursor to that tier and sends the scan's next request to it.
C6_Advance ==
    \A s \in ScanIds :
        (/\ scans[s].pc = "fetch"
         /\ scans'[s] # scans[s]
         /\ scans'[s].lastReply \in FailureKinds
         /\ TierIndex(currentModel) < Len(fallbackOrder))
            => /\ scans'[s].pc = "fetch"
               /\ currentModel' = Models(fallbackOrder[TierIndex(currentModel) + 1])
               /\ scans'[s].reqModel = currentModel'
               /\ scans'[s].tried = Append(scans[s].tried, currentModel')

C7_Absent ==
    ev.op = "tabUpdatedUrl" => (ev.tab \notin DOMAIN scannedTabs /\ badge[ev.tab] = "")

\* C7: a tab without a result in the store gets one, and a badge, only by
\* the step in which a scan of that tab returns its result.
C7_UntilScan ==
    \A t \in Tabs :
        ((t \notin DOMAIN scannedTabs /\ t \in DOMAIN scannedTabs')
             \/ (badge[t] = "" /\ badge'[t] # ""))
            => \E s \in ScanIds :
                   /\ scans[s].tabId = t
                   /\ scans[s].pc = "fetch"
                   /\ scans'[s].result # NoResult
                   /\ t \in DOMAIN scannedTabs'
                   /\ scannedTabs'[t] = scans'[s].result

\* C7: after a url change of a tab the lookup of the tab returns absent and
\* the badge is cleared, until a scan of the tab completes.
C7_Invalidated == []C7_Absent /\ [][C7_UntilScan]_vars

\* C7: the only url change of a tab was handled after a scan of the tab had
\* stored its result.
C7_Witness ==
    /\ ev.op = "tabUpdatedUrl"
    /\ nNav = 1
    /\ \E s \in ScanIds :
           /\ scans[s].tabId = ev.tab
           /\ scans[s].pc = "done"
           /\ scans[s].result.url = UrlA
    /\ ev.tab \notin DOMAIN scannedTabs

\* C8: when the background has handled the 'urlChanged' message of a tab's
\* page, the store has no result for that tab.
C8_UrlChangedInvalidates ==
    ev.op = "urlChanged" => ev.tab \notin DOMAIN scannedTabs

\* C9: for a numeric raw score the result's score is a whole number from 0
\* to 100: 0 for a raw score below 0 and 100 for one above 100.
C9_IntegerInRange ==
    pOut.done =>
        /\ pOut.result.legitimacyScore.t = "num"
        /\ pOut.result.legitimacyScore.n % Unit = 0
        /\ pOut.result.legitimacyScore.n >= Js(0)
        /\ pOut.result.legitimacyScore.n <= Js(100)
        /\ pIn.score < Js(0) => pOut.result.legitimacyScore.n = Js(0)
        /\ pIn.score > Js(100) => pOut.result.legitimacyScore.n = Js(100)

\* C10: the serialized object of a whole score from 0 to 100 and of a list
\* of at most 3 reasons parses to that score and those reasons, and the
\* result is not one of the fallback classifier.
C10_RoundTrip ==
    (pOut.done /\ pIn.score % Unit = 0 /\ pIn.score >= Js(0) /\ pIn.score <= Js(100)
         /\ Len(pIn.reasoning) <= 3)
        => /\ pOut.result.legitimacyScore = JsNum(pIn.score)
           /\ pOut.result.reasoning = [i \in 1..Len(pIn.reasoning) |-> JsStr(pIn.reasoning[i])]
           /\ ~pOut.result.fallback

\* The score Math.min(Math.max(x, 0), 100) of a number x.
Clamped(x) == Min2(Max2(x, Js(0)), Js(100))

\* C11: the score of a reply object without a legitimacyScore member, or with
\* one that is not a number, is 50, and the score of an object whose member is
\* a number is that number within 0..100, not the default.
C11_DefaultScore ==
    (pOut.done /\ pIn.shape = "object") =>
        /\ pIn.raw.t # "num" => pOut.result.legitimacyScore = JsNum(Js(50))
        /\ pIn.raw.t = "num" => pOut.result.legitimacyScore = JsNum(Clamped(pIn.raw.n))

\* The reply texts in which the parser finds no JSON object, or one that
\* JSON.parse rejects.
UnparsableTexts == {ReplyProse, ReplyBroken}

\* C12: a scan whose reply text could not be parsed has a result, marked as
\* the fallback classifier's, and no error.
C12_Recovered ==
    \A s \in ScanIds :
        (scans[s].lastReply = "text" /\ scans[s].replyText \in UnparsableTexts)
            => /\ scans[s].pc = "done"
               /\ scans[s].result # NoResult
               /\ scans[s].result.fallback
               /\ scans[s].error = NoError
               /\ scans[s].tabId \in DOMAIN scannedTabs

\* C12: the step in which a scan gets a text that cannot be parsed requests no
\* further tier and leaves the cursor where it is.
C12_NoAdvance ==
    \A s \in ScanIds :
        (scans[s].pc = "fetch" /\ scans'[s].lastReply = "text"
             /\ scans'[s].replyText \in UnparsableTexts)
            => /\ scans'[s].tried = scans[s].tried
               /\ currentModel' = currentModel

\* C12: a parse failure is never surfaced: the scan returns a fallback result
\* instead of failing or advancing to another tier.
C12_NeverSurfaced == []C12_Recovered /\ [][C12_NoAdvance]_vars

\* C12: scans ended by a text without an object and by a text with an object
\* that does not parse, the second after a tier had failed.
C12_Witness ==
    /\ scans[1].pc = "done" /\ scans[1].replyText = ReplyProse /\ scans[1].result.fallback
    /\ scans[2].pc = "done" /\ scans[2].replyText = ReplyBroken /\ scans[2].result.fallback
    /\ Len(scans[2].tried) >= 2

\* The case-folded text contains one of the terms.
ContainsAny(text, terms) == \E term \in terms : Includes(text, term)

AlarmTerms == {"phishing", "suspicious", "malicious"}
CalmTerms == {"legitimate", "safe", "trusted"}

\* C13: the score of a fallback result is 25 when the case-folded reply
\* contains an alarming term, otherwise 65 when it contains a reassuring term,
\* otherwise 50; a reply with terms of both groups scores 25.
C13_LexicalRule ==
    (pOut.done /\ pOut.result.fallback) =>
        pOut.result.legitimacyScore =
            JsNum(Js(IF ContainsAny(pIn.text, AlarmTerms) THEN 25
                     ELSE IF ContainsAny(pIn.text, CalmTerms) THEN 65
                     ELSE 50))

\* C13: a fallback result for a reply with terms of both groups, one of them
\* inside a longer word and the other in capitals.
C13_Witness ==
    /\ pOut.done /\ pOut.result.fallback
    /\ pIn.text = <<W("unsafe"), W("PHISHING")>>
    /\ pOut.result.legitimacyScore = JsNum(Js(25))

\* C14: a result of the fallback classifier records no model tier, and a
\* result that records a model tier was built from parsed JSON.
C14_NoTierOnFallback ==
    pOut.done =>
        /\ pOut.result.fallback => pOut.result.modelUsed = "none"
        /\ pOut.result.modelUsed # "none" => ~pOut.result.fallback

\* C15: the reasoning list of a result has at most 3 entries, whatever list
\* the reply contained.
C15_AtMostThree == pOut.done => Len(pOut.result.reasoning) <= 3

\* The positions of the closing braces of a text.
Closings(text) == {i \in 1..Len(text) : text[i] = RBrace}

\* C16: a reply made of a valid object and further text that contains a
\* closing brace is parsed from its first object: the result is not marked as
\* fallback and carries the score of that object.
C16_FirstObject ==
    (pOut.done /\ pIn.shape = "trailing" /\ Cardinality(Closings(pIn.text)) >= 2) =>
        /\ ~pOut.result.fallback
        /\ pOut.result.legitimacyScore = pIn.raw

----------------------------------------------------------------------------
(* The verdict bands.                                                      *)

\* The ranges of the two sliders of the settings, and the step at which the
\* model takes their stops.
SafeMin == 70
SafeMax == 95
CautionMin == 30
CautionMax == 70
MaxScore == 100
Step == 5
SafeStops == {v \in SafeMin..SafeMax : (v - SafeMin) % Step = 0}
CautionStops == {v \in CautionMin..CautionMax : (v - CautionMin) % Step = 0}

\* A result with the given integer score.
Scored(k) == [NoResult EXCEPT !.legitimacyScore = JsNum(Js(k)), !.url = UrlA]

\* A score and a pair of thresholds, the safe one above the caution one.
InitBand ==
    /\ InitBackground
    /\ storage = InitStorage
    /\ pIn \in {[score |-> k, safe |-> a, caution |-> c] :
                    k \in 0..MaxScore,
                    a \in SafeStops \cup {MaxScore},
                    c \in CautionStops \cup {0, 69}}
    /\ pIn.safe > pIn.caution
    /\ pOut = [badge |-> "", history |-> "", popup |-> ""]

\* updateBadge, saveToHistory and displayResults for the score.
BandBadge ==
    /\ pOut.badge = ""
    /\ pOut' = [pOut EXCEPT !.badge = BadgeOf(Scored(pIn.score), pIn.safe, pIn.caution)]
    /\ UNCHANGED <<popup, storage, changes, nChanges, bgVars, scannedTabs, badge, pageVars, scans,
                   ev, pIn>>

BandHistory ==
    /\ pOut.history = ""
    /\ pOut' = [pOut EXCEPT
          !.history = HistoryItem(Scored(pIn.score), pIn.safe, pIn.caution).verdict]
    /\ UNCHANGED <<popup, storage, changes, nChanges, bgVars, scannedTabs, badge, pageVars, scans,
                   ev, pIn>>

BandPopup ==
    /\ pOut.popup = ""
    /\ pOut' = [pOut EXCEPT !.popup = displayVerdict(Scored(pIn.score), pIn.safe, pIn.caution)]
    /\ UNCHANGED <<popup, storage, changes, nChanges, bgVars, scannedTabs, badge, pageVars, scans,
                   ev, pIn>>

NextBand == BandBadge \/ BandHistory \/ BandPopup

SpecBand == InitBand /\ [][NextBand]_vars

\* The verdict a badge stands for.
BadgeVerdict(b) ==
    CASE b = "safe" -> "Legitimate" [] b = "caution" -> "Uncertain"
      [] b = "danger" -> "Phishing" [] OTHER -> ""

\* The verdicts rendered so far.
Rendered == {BadgeVerdict(pOut.badge), pOut.history, pOut.popup} \ {""}

\* C17: for a safe threshold above the caution threshold and an integer score
\* in 0..100, a rendered verdict is Legitimate exactly when score >= safe,
\* Uncertain exactly when caution <= score < safe, and Phishing exactly when
\* score < caution; the badge, the history and the popup give the same verdict.
C17_Banding ==
    \A v \in Rendered :
        /\ v \in {"Legitimate", "Uncertain", "Phishing"}
        /\ v = "Legitimate" <=> pIn.score >= pIn.safe
        /\ v = "Uncertain" <=> (pIn.caution <= pIn.score /\ pIn.score < pIn.safe)
        /\ v = "Phishing" <=> pIn.score < pIn.caution

\* C17: the three verdicts of a score that equals the safe threshold, one
\* above the caution threshold.
C17_Witness ==
    /\ pIn.score = pIn.safe /\ pIn.safe = pIn.caution + 1
    /\ pOut.badge = "safe" /\ pOut.history = "Legitimate" /\ pOut.popup = "Legitimate"

----------------------------------------------------------------------------
(* The thresholds: the sliders of the settings, storage, the background.   *)

\* The number of slider and reset events of a behaviour.
MaxMoves == 2

\* The value a range input keeps when a script assigns to it.
Clamp(v, lo, hi) == Min2(Max2(v, lo), hi)

\* chrome.storage.sync.set of the thresholds: the stored values afterwards,
\* and the onChanged event, which carries the keys whose value changed.
ThresholdsWritten(st, safe, caution) ==
    [st EXCEPT !.safeThreshold = safe, !.cautionThreshold = caution]

ThresholdChanges(st, safe, caution) ==
    IF st.safeThreshold # safe /\ st.cautionThreshold # caution
    THEN <<Change("thresholds", [safeThreshold |-> safe, cautionThreshold |-> caution])>>
    ELSE IF st.safeThreshold # safe THEN <<Change("safeThreshold", safe)>>
    ELSE IF st.cautionThreshold # caution THEN <<Change("cautionThreshold", caution)>>
    ELSE <<>>

\* A handler up to its await of storage.set: what it does after the await.
Save(key, value) == [key |-> key, value |-> value]

\* The handlers of one event up to their awaits: storage.set was called for
\* each save, with the same items, and each handler waits for its own call.
Saved(saves, safe, caution) ==
    /\ storage' = IF saves = <<>> THEN storage ELSE ThresholdsWritten(storage, safe, caution)
    /\ changes' = IF saves = <<>> THEN changes
                  ELSE changes \o ThresholdChanges(storage, safe, caution)
    /\ popup' = [popup EXCEPT !.pending = @ \o saves, !.moves = @ + 1]
    /\ ev' = NoEvent
    /\ UNCHANGED <<nChanges, bgVars, scannedTabs, badge, pageVars, scans, parseVars>>

\* The saves of the two 'change' listeners of a slider. The listener added by
\* showSettings corrects a value on the wrong side of the other threshold to
\* `corrected`, writes it to the slider and then throws, assigning to a const;
\* the listener added by setupThresholdSliders runs next and reads the slider.
SliderSaves(key, v, corrected, valid, correctedValid) ==
    IF valid THEN <<Save(key, v), Save(key, v)>>
    ELSE IF correctedValid THEN <<Save(key, corrected)>>
    ELSE <<>>

\* A 'change' event of the safe slider with the value v.
SafeChange(v) ==
    /\ popup.moves < MaxMoves
    /\ \E corrected \in {Clamp(popup.cautionThreshold + 10, SafeMin, SafeMax)} :
          Saved(SliderSaves("safeThreshold", v, corrected, v > popup.cautionThreshold,
                            corrected > popup.cautionThreshold),
                IF v > popup.cautionThreshold THEN v ELSE corrected,
                storage.cautionThreshold)

\* A 'change' event of the caution slider with the value v.
CautionChange(v) ==
    /\ popup.moves < MaxMoves
    /\ \E corrected \in {Clamp(popup.safeThreshold - 10, CautionMin, CautionMax)} :
          Saved(SliderSaves("cautionThreshold", v, corrected, v < popup.safeThreshold,
                            corrected < popup.safeThreshold),
                storage.safeThreshold,
                IF v < popup.safeThreshold THEN v ELSE corrected)

\* A click on the reset button: its two listeners save the defaults.
ResetClick ==
    /\ popup.moves < MaxMoves
    /\ Saved(<<Save("reset", 0), Save("reset", 0)>>, 80, 50)

\* A handler goes on after its await: the popup's copy is assigned.
SaveDone ==
    /\ popup.pending # <<>>
    /\ \E h \in {Head(popup.pending)} :
          popup' = [popup EXCEPT
              !.pending = Tail(@),
              !.safeThreshold =
                  CASE h.key = "safeThreshold" -> h.value [] h.key = "reset" -> 80 [] OTHER -> @,
              !.cautionThreshold =
                  CASE h.key = "cautionThreshold" -> h.value [] h.key = "reset" -> 50
                    [] OTHER -> @]
    /\ ev' = NoEvent
    /\ UNCHANGED <<storage, changes, nChanges, bgVars, scannedTabs, badge, pageVars, scans,
                   parseVars>>

NextThresholds ==
    \/ \E v \in SafeStops : SafeChange(v)
    \/ \E v \in CautionStops : CautionChange(v)
    \/ ResetClick
    \/ SaveDone
    \/ handleStorageChange

SpecThresholds == Init /\ [][NextThresholds]_vars

\* The thresholds storage holds, as loadSettings and loadStoredData read them.
StoredSafe == OrNum(storage.safeThreshold, 80)
StoredCaution == OrNum(storage.cautionThreshold, 50)

\* C18: the safe threshold is above the caution threshold in the popup's copy,
\* in storage and in the background's copy, saves under way or not.
C18_Ordered ==
    /\ popup.safeThreshold > popup.cautionThreshold
    /\ StoredSafe > StoredCaution
    /\ safeThreshold > cautionThreshold

\* C19: an update of the thresholds made while no save is under way leaves
\* the stored thresholds at least 10 apart.
C19_TenApart ==
    [][(popup.pending = <<>> /\ storage' # storage)
           => StoredSafe' - StoredCaution' >= 10]_vars

----------------------------------------------------------------------------
(* The badge of a scanned tab under thresholds that change.                *)

\* A reply with a score between the stops of the two sliders.
ReplyMid == Serialize(Js(75), <<>>)

\* The safe slider is moved, or the reset button clicked, between two scans
\* and once the move before it was saved and delivered to the background. (The
\* score 75 is above every stop of the caution slider.)
Settled == Quiet /\ popup.pending = <<>> /\ changes = <<>>
SettledSafeChange(v) == Settled /\ SafeChange(v)
SettledResetClick == Settled /\ ResetClick
SoloSaveDone == Quiet /\ SaveDone

NextRebadge ==
    \/ \E s \in ScanIds : SoloScan(s)
    \/ \E s \in ScanIds : ScanLoaded(s)
    \/ \E s \in ScanIds : Extracted(s)
    \/ \E s \in ScanIds : Reply(s, [kind |-> "text", text |-> ReplyMid])
    \/ \E v \in SafeStops : SettledSafeChange(v)
    \/ SettledResetClick
    \/ SoloSaveDone
    \/ SoloStorageChange
    \/ \E t \in Tabs : handleTabActivated(t)

SpecRebadge == InitNav /\ [][NextRebadge]_vars

\* The band of a cached result under the background's thresholds.
BandNow(result) ==
    IF result.legitimacyScore.n >= Js(safeThreshold) THEN "safe"
    ELSE IF result.legitimacyScore.n >= Js(cautionThreshold) THEN "caution"
    ELSE "danger"

\* C20: when a scanned tab is activated, its badge is the band of the cached
\* score under the thresholds the background holds at that moment.
C20_BandAtActivation ==
    [][(activeTab' # activeTab /\ activeTab' \in DOMAIN scannedTabs)
           => badge'[activeTab'] = BandNow(scannedTabs[activeTab'])]_vars

\* C20: tab 1, scanned with the score 75 and badged again on its activation
\* after the safe threshold went down to the score or below it.
C20_Witness ==
    /\ ev = [op |-> "tabActivated", tab |-> 1]
    /\ 1 \in DOMAIN scannedTabs
    /\ scannedTabs[1].legitimacyScore = JsNum(Js(75))
    /\ safeThreshold <= 75
    /\ badge[1] = "safe"

----------------------------------------------------------------------------
(* The extraction strategies.                                              *)

\* The strategies one call of fallbackPageExtraction attempts: the script, and
\* chrome.tabs.get where the script ran and gave no result.
FallbackAttempts(fb) ==
    IF fb = "none" THEN <<"fallback", "minimal">> ELSE <<"fallback">>

\* The strategies getPageContent attempts, in the order of the attempts.
Attempts(o) ==
    <<"primary">> \o
    (IF o.primary = "ok" THEN <<>>
     ELSE IF o.primary = "none"
     THEN FallbackAttempts(o.fb1) \o
          (IF fallbackPageExtraction(o.fb1, o.get1) = "error"
           THEN FallbackAttempts(o.fb2) ELSE <<>>)
     ELSE FallbackAttempts(o.fb2))

\* getPageContent on its own, for each outcome of the browser's calls.
InitExtract ==
    /\ InitBackground
    /\ storage = InitStorage
    /\ pIn \in ExtractOutcomes
    /\ pOut = [done |-> FALSE, method |-> "", attempts |-> <<>>]

ExtractPage ==
    /\ ~pOut.done
    /\ pOut' = [done |-> TRUE, method |-> getPageContent(pIn), attempts |-> Attempts(pIn)]
    /\ UNCHANGED <<popup, storage, changes, nChanges, bgVars, scannedTabs, badge, pageVars,
                   scans, ev, pIn>>

NextExtract == ExtractPage

SpecExtract == InitExtract /\ [][NextExtract]_vars

\* C21: an extraction failure is reported only when the primary, the fallback
\* and the minimal strategy were all attempted; the minimal strategy is
\* attempted whenever the fallback script fails.
C21_AllAttempted ==
    (pOut.done /\ pOut.method = "error") =>
        \A m \in {"primary", "fallback", "minimal"} :
            \E i \in 1..Len(pOut.attempts) : pOut.attempts[i] = m

----------------------------------------------------------------------------
(* Scan requests and the API key.                                          *)

\* handleMessage for a 'scanPage' message about the active tab, whatever the
\* sender checked before sending it.
handleMessageScanPage(s) ==
    /\ Quiet
    /\ NextScan(s)
    /\ StartScan(s, activeTab, "popup")
    /\ ev' = NoEvent
    /\ UNCHANGED <<popup, storage, changes, nChanges, bgVars, scannedTabs, badge, pageVars,
                   parseVars>>

SoloMenuClick(s) == Quiet /\ ContextMenuClick(s)

\* Requests by message and by the context menu, one scan at a time, while the
\* key is saved at any moment.
NextRequest ==
    \/ \E s \in ScanIds : handleMessageScanPage(s)
    \/ \E s \in ScanIds : SoloMenuClick(s)
    \/ \E s \in ScanIds : ScanLoaded(s)
    \/ \E s \in ScanIds : Extracted(s)
    \/ \E s \in ScanIds, r \in NavReplies : Reply(s, r)
    \/ \E s \in ScanIds : HistoryRead(s)
    \/ \E s \in ScanIds : HistorySaved(s)
    \/ StorageSet
    \/ handleStorageChange

SpecRequest == Init /\ [][NextRequest]_vars

\* C22: while no API key is configured no scan gets beyond its check of the
\* key: no page is extracted, no request is sent, a scan that was requested
\* ends with the error of the missing key, and the scan store, the badges and
\* the history are as they were.
C22_NotAttempted ==
    storage.geminiApiKey = "none" =>
        /\ \A s \in ScanIds :
              /\ scans[s].pc \in {"idle", "load", "failed"}
              /\ scans[s].pageUrl = "" /\ scans[s].tried = <<>>
              /\ scans[s].pc = "failed" => scans[s].error.kind = "API key not configured"
        /\ scannedTabs = <<>>
        /\ \A t \in Tabs : badge[t] = "" /\ banner[t] = NoBanner
        /\ storage.scanHistory = <<>>

\* C22: a click on the context menu while no key is configured starts no scan
\* and is answered with the notice of the missing key.
C22_MenuRefused ==
    \A s \in ScanIds :
        (storage.geminiApiKey = "none" /\ scans[s].pc = "idle" /\ scans'[s].pc # "idle")
            => scans'[s].scanSource = "popup"

\* C22: with no API key configured a scan request is not attempted.
C22_NoKeyNoScan == []C22_NotAttempted /\ [][C22_MenuRefused]_vars

\* C22: without a key, a scan requested by message has ended with the error
\* and a click on the context menu has been refused.
C22_Witness ==
    /\ storage.geminiApiKey = "none"
    /\ scans[1].pc = "failed" /\ scans[1].error.kind = "API key not configured"
    /\ ev = [op |-> "menuNoKey", tab |-> activeTab]

----------------------------------------------------------------------------
(* The flag of the domain.                                                 *)

\* The two pages of the comparison: their urls differ in the flag.
FlagUrls == {UrlA, UrlSecure}

\* What of pageData goes into the prompt, as far as the model follows it.
PageData(url) ==
    [fullUrl |-> url, bodyText |-> <<>>, isDomainSuspicious |-> isSuspiciousDomain(url)]

\* str.substring(0, n)
Substring0(str, n) == SubSeq(str, 1, Min2(Len(str), n))

\* The scoring rubric of the prompt, under its heading 'SCORING RUBRIC (do not
\* reveal)'.
ScoringRubric ==
    [doNotReveal |-> TRUE,
     bands |-> <<[from |-> 0, to |-> 39, means |-> "likely phishing/malicious"],
                 [from |-> 40, to |-> 59, means |-> "suspicious, proceed with caution"],
                 [from |-> 60, to |-> 79, means |-> "mostly legitimate (minor concerns)"],
                 [from |-> 80, to |-> 100, means |-> "highly legitimate"]>>]

\* The instructions of the prompt outside the rubric, one name for each
\* sentence of the text.
PromptInstructions ==
    {"score legitimacy 0-100", "respond with only this JSON", "max 3 reasons",
     "analysis tips: do not reveal", "weigh url, domain age, https, forms",
     "weigh content-title consistency", "weigh common phishing patterns",
     "state uncertainty if data is incomplete"}

\* buildAnalysisPrompt(pageData): the fixed text, and the parts that vary.
buildAnalysisPrompt(pageData) ==
    [url |-> pageData.fullUrl, domainKeywords |-> pageData.isDomainSuspicious,
     bodyText |-> Substring0(pageData.bodyText, 1000),
     rubric |-> ScoringRubric, instructions |-> PromptInstructions]

NoRun == [done |-> FALSE, prompt |-> [url |-> "", domainKeywords |-> FALSE],
          result |-> NoResult, band |-> ""]

\* The same reply for both pages.
InitFlag ==
    /\ InitBackground
    /\ storage = InitStorage
    /\ pIn \in ReplyInputs
    /\ pOut = [u \in FlagUrls |-> NoRun]

\* scanPage from the snapshot on, for the page at the url u: the flag is set,
\* the prompt is built, the reply is parsed and the badge is set.
AnalyzePage(u) ==
    /\ ~pOut[u].done
    /\ \E result \in {parseGeminiResponse(pIn.text, PageData(u).fullUrl, currentModel)} :
          pOut' = [pOut EXCEPT ![u] =
                      [done |-> TRUE, prompt |-> buildAnalysisPrompt(PageData(u)),
                       result |-> result,
                       band |-> BadgeOf(result, safeThreshold, cautionThreshold)]]
    /\ UNCHANGED <<popup, storage, changes, nChanges, bgVars, scannedTabs, badge, pageVars,
                   scans, ev, pIn>>

NextFlag == \E u \in FlagUrls : AnalyzePage(u)

SpecFlag == InitFlag /\ [][NextFlag]_vars

\* C23: two scans with the same reply, one of a page whose domain is flagged
\* and one of a page whose domain is not, have the same score, the same
\* reasoning and the same band.
C23_FlagAdvisory ==
    \A u, v \in FlagUrls :
        (pOut[u].done /\ pOut[v].done) =>
            /\ pOut[u].result.legitimacyScore = pOut[v].result.legitimacyScore
            /\ pOut[u].result.reasoning = pOut[v].result.reasoning
            /\ pOut[u].band = pOut[v].band

\* C23: both scans are done on a reply that parses, and their prompts differ
\* in the flag.
C23_Witness ==
    /\ pOut[UrlA].done /\ pOut[UrlSecure].done
    /\ ~pOut[UrlA].prompt.domainKeywords /\ pOut[UrlSecure].prompt.domainKeywords
    /\ ~pOut[UrlSecure].result.fallback
    /\ pOut[UrlSecure].band = "safe"

----------------------------------------------------------------------------
(* The format of the API key.                                              *)

MinKeyLength == 30
MaxTail == 2

\* Keys as sequences of characters: a start, a run of letters, and an end of
\* up to MaxTail characters that may be blanks or line breaks.
Run(n) == [i \in 1..n |-> "x"]
Starts == {<<>>, <<"A", "I", "z", "a">>, <<"A", "I", "z", "b">>, <<"a", "I", "z", "a">>}
Ends == UNION {[1..n -> {"x", " ", "\n"}] : n \in 0..MaxTail}
Keys ==
    {st \o Run(n) \o e :
        st \in Starts, n \in {0, MinKeyLength - 6, MinKeyLength - 5, MinKeyLength - 4}, e \in Ends}

\* apiKey.startsWith(prefix) and apiKey.includes(ch)
StartsWith(key, prefix) ==
    Len(key) >= Len(prefix) /\ SubSeq(key, 1, Len(prefix)) = prefix
IncludesChar(key, ch) == \E i \in 1..Len(key) : key[i] = ch

\* validateApiKey(apiKey)
validateApiKey(apiKey) ==
    IF apiKey = <<>> \/ Len(apiKey) < MinKeyLength
    THEN [valid |-> FALSE, error |-> "API key too short"]
    ELSE IF ~StartsWith(apiKey, <<"A", "I", "z", "a">>)
    THEN [valid |-> FALSE, error |-> "Invalid API key format"]
    ELSE IF IncludesChar(apiKey, " ") \/ IncludesChar(apiKey, "\n")
    THEN [valid |-> FALSE, error |-> "API key contains invalid characters"]
    ELSE [valid |-> TRUE, error |-> ""]

InitKey ==
    /\ InitBackground
    /\ storage = InitStorage
    /\ pIn \in Keys
    /\ pOut = [done |-> FALSE, valid |-> FALSE, error |-> ""]

ValidateKey ==
    /\ ~pOut.done
    /\ pOut' = [done |-> TRUE, valid |-> validateApiKey(pIn).valid,
                error |-> validateApiKey(pIn).error]
    /\ UNCHANGED <<popup, storage, changes, nChanges, bgVars, scannedTabs, badge, pageVars,
                   scans, ev, pIn>>

NextKey == ValidateKey

SpecKey == InitKey /\ [][NextKey]_vars

\* C24: a key is accepted exactly when it is not empty, has at least 30
\* characters and starts with AIza.
C24_ExactlyFormat ==
    pOut.done =>
        (pOut.valid <=> (/\ pIn # <<>>
                         /\ Len(pIn) >= 30
                         /\ Len(pIn) >= 4 /\ SubSeq(pIn, 1, 4) = <<"A", "I", "z", "a">>))

----------------------------------------------------------------------------
(* Tabs that are closed.                                                   *)

\* A tab is open while it has a location.
IsOpen(t) == tabUrl[t] # ""

\* The user closes a tab that is not the active one. The browser raises
\* tabs.onRemoved, for which the background has no listener; the events of
\* the tab that were still to be delivered are gone with it.
CloseTab(t) ==
    /\ t # activeTab
    /\ IsOpen(t)
    /\ tabUrl' = [tabUrl EXCEPT ![t] = ""]
    /\ tabEvents' = [tabEvents EXCEPT ![t] = 0]
    /\ urlMsgs' = [urlMsgs EXCEPT ![t] = 0]
    /\ ev' = [op |-> "tabRemoved", tab |-> t]
    /\ UNCHANGED <<popup, storage, changes, nChanges, bgVars, scannedTabs, badge, activeTab,
                   nNav, lastUrl, banner, scans, parseVars>>

\* The user goes to a tab that is open.
ActivateOpen(t) == IsOpen(t) /\ handleTabActivated(t)

NextClose ==
    \/ \E s \in ScanIds : SoloScan(s)
    \/ \E s \in ScanIds : ScanLoaded(s)
    \/ \E s \in ScanIds : Extracted(s)
    \/ \E s \in ScanIds, r \in NavReplies : Reply(s, r)
    \/ \E t \in Tabs : ActivateOpen(t)
    \/ \E t \in Tabs : CloseTab(t)

SpecClose == InitNav /\ [][NextClose]_vars

\* C25: every tab with an entry in scannedTabs is an open tab.
C25_OnlyOpenTabs == \A t \in DOMAIN scannedTabs : IsOpen(t)

----------------------------------------------------------------------------
(* Scans of one tab that overlap.                                          *)

\* Replies with a generated text: two scores, in different bands.
ScoreReplies == {[kind |-> "text", text |-> t] : t \in {ReplyJson, ReplyMid}}

\* Scans requested while others are in flight, each of them succeeding, and
\* the user going from tab to tab.
NextOverlap ==
    \/ \E s \in ScanIds : PopupScan(s)
    \/ \E s \in ScanIds : ScanLoaded(s)
    \/ \E s \in ScanIds : Extracted(s)
    \/ \E s \in ScanIds, r \in ScoreReplies : Reply(s, r)
    \/ \E t \in Tabs : handleTabActivated(t)

SpecOverlap == InitNav /\ [][NextOverlap]_vars

\* The step in which the scan s completes with a result.
Completes(s) == scans[s].pc = "fetch" /\ scans'[s].pc \in {"done", "history"}

\* C26: the scan that completes leaves its own result, whole, as the entry of
\* its tab and the badge of that result on the tab, and the entry changes in
\* no other step: after two scans of a tab the entry is the result of the
\* one that completed last.
C26_LastWriterWins ==
    [][/\ \A s \in ScanIds :
            Completes(s) =>
                /\ scannedTabs'[scans[s].tabId] = scans'[s].result
                /\ badge'[scans[s].tabId] =
                       BadgeOf(scans'[s].result, safeThreshold', cautionThreshold')
       /\ scannedTabs' # scannedTabs => \E s \in ScanIds : Completes(s)]_vars

\* C26: two scans of tab 1 were in flight together and got different results;
\* the one requested first completed last, and its result is the entry.
C26_Witness ==
    /\ scans[1].pc = "done" /\ scans[2].pc = "done"
    /\ scans[1].tabId = 1 /\ scans[2].tabId = 1
    /\ scans[1].result.legitimacyScore # scans[2].result.legitimacyScore
    /\ scannedTabs[1] = scans[1].result
    /\ badge[1] = BadgeOf(scans[1].result, safeThreshold, cautionThreshold)

----------------------------------------------------------------------------
(* The notices of the tier advances.                                       *)

\* The notice showFallbackNotification sends for the step from one tier to
\* the next.
NoticeOf(fromModel, toModel) ==
    [from |-> getModelDisplayName(fromModel), to |-> getModelDisplayName(toModel)]

\* The tiers a list of notices names.
Named(notices) ==
    [i \in 1..Len(notices) |-> [from |-> notices[i].from, to |-> notices[i].to]]

\* C27: a scan whose request fails and which goes on to a next tier gets one
\* more notice, naming the tier the failed request was sent to and the tier the
\* next request is sent to; a step of a scan that is no tier advance (a
\* generated text, the exhaustion of the chain) adds no notice.
C27_NoticePerAdvance ==
    [][\A s \in ScanIds :
          IF scans[s].pc = "fetch" /\ scans'[s].tried # scans[s].tried
          THEN Named(scans'[s].notices) =
                   Append(Named(scans[s].notices),
                          NoticeOf(scans[s].reqModel, scans'[s].reqModel))
          ELSE scans'[s].notices = scans[s].notices]_vars

----------------------------------------------------------------------------
(* The popup's scan button and its history.                                *)

\* The click on the scan button.
ScanClick == [op |-> "scanClick", tab |-> 0]

\* A click handler that lacks the check of isScanning.
scanCurrentPageUnguarded ==
    /\ popup.pc \in {"idle", "query", "response"}
    /\ ev' = ScanClick
    /\ popup' = IF storage.geminiApiKey = "none" THEN popup
                ELSE [popup EXCEPT !.isScanning = TRUE, !.pc = "query"]
    /\ UNCHANGED <<storage, changes, nChanges, bgVars, scannedTabs, badge, pageVars, scans,
                   parseVars>>

\* scanCurrentPage up to its first await: nothing while a scan is under way,
\* a notice without a key, else isScanning is set and the active tab queried.
scanCurrentPage ==
    /\ popup.pc \in {"idle", "query", "response"}
    /\ ev' = ScanClick
    /\ popup' = IF popup.isScanning \/ storage.geminiApiKey = "none" THEN popup
                ELSE [popup EXCEPT !.isScanning = TRUE, !.pc = "query"]
    /\ UNCHANGED <<storage, changes, nChanges, bgVars, scannedTabs, badge, pageVars, scans,
                   parseVars>>

\* scanCurrentPage after chrome.tabs.query: without a tab it throws, and the
\* finally block runs; with one the 'scanPage' message is sent and awaited.
TabQueried(s, found) ==
    /\ popup.pc = "query"
    /\ NextScan(s)
    /\ IF found
       THEN /\ StartScan(s, activeTab, "popup")
            /\ popup' = [popup EXCEPT !.pc = "response", !.awaiting = s]
       ELSE /\ popup' = [popup EXCEPT !.pc = "idle", !.isScanning = FALSE]
            /\ UNCHANGED scans
    /\ ev' = NoEvent
    /\ UNCHANGED <<storage, changes, nChanges, bgVars, scannedTabs, badge, pageVars,
                   parseVars>>

\* The popup's saveToHistory: its own copy of the history gets the entry first,
\* is cut to 10 and handed to storage.set.
PopupHistory(result) ==
    Slice10(<<HistoryItem(result, popup.safeThreshold, popup.cautionThreshold)>>
                \o popup.scanHistory)

\* displayResults: below the caution threshold the popup shows the notice
\* 'Phishing website detected! Check the banner on the webpage for details.'
displayResults(result, tabId) ==
    IF ScoreLt(result.legitimacyScore, popup.cautionThreshold)
    THEN [op |-> "phishingNotice", tab |-> tabId]
    ELSE NoEvent

\* scanCurrentPage after the response: an error response is thrown and
\* reported, a result is displayed and saved; the finally block runs.
ScanResponse(s) ==
    /\ popup.pc = "response"
    /\ popup.awaiting = s
    /\ scans[s].pc \in {"done", "failed"}
    /\ IF scans[s].pc = "done"
       THEN /\ popup' = [popup EXCEPT !.pc = "idle", !.isScanning = FALSE, !.awaiting = 0,
                                      !.scanHistory = PopupHistory(scans[s].result)]
            /\ storage' = [storage EXCEPT !.scanHistory = PopupHistory(scans[s].result)]
            /\ ev' = displayResults(scans[s].result, scans[s].tabId)
       ELSE /\ popup' = [popup EXCEPT !.pc = "idle", !.isScanning = FALSE, !.awaiting = 0]
            /\ UNCHANGED storage
            /\ ev' = NoEvent
    /\ UNCHANGED <<changes, nChanges, bgVars, scannedTabs, badge, pageVars, scans, parseVars>>

\* The popup is closed: its object is gone, with whatever it was waiting for.
ClosePopup ==
    /\ popup.pc # "closed"
    /\ popup' = [loadStoredData(InitStorage) EXCEPT !.pc = "closed"]
    /\ ev' = NoEvent
    /\ UNCHANGED <<storage, changes, nChanges, bgVars, scannedTabs, badge, pageVars, scans,
                   parseVars>>

\* The popup is opened: a new object, which loads its data from storage.
OpenPopup ==
    /\ popup.pc = "closed"
    /\ popup' = loadStoredData(storage)
    /\ ev' = NoEvent
    /\ UNCHANGED <<storage, changes, nChanges, bgVars, scannedTabs, badge, pageVars, scans,
                   parseVars>>

\* A right click on the page, which closes an open popup, and the menu entry.
MenuScan(s) == popup.pc = "closed" /\ ContextMenuClick(s)

\* Histories left in storage by earlier scans: none, one short of the limit,
\* and a full one.
OldItem(i) == [url |-> UrlB, verdict |-> "Uncertain", legitimacyScore |-> Js(50 + i)]
OldHistory(n) == [i \in 1..n |-> OldItem(i)]
StoredHistories == {<<>>, OldHistory(9), OldHistory(10)}

InitHistory ==
    /\ Constructed({[InitStorage EXCEPT !.geminiApiKey = ApiKey, !.scanHistory = h] :
                        h \in StoredHistories})
    /\ pIn = [text |-> ReplyProse, score |-> 0, reasoning |-> <<>>]
    /\ pOut = [done |-> FALSE, result |-> NoResult]

\* Scans from the popup and from the context menu, each saved to the history.
NextHistory ==
    \/ scanCurrentPage
    \/ \E s \in ScanIds, found \in BOOLEAN : TabQueried(s, found)
    \/ \E s \in ScanIds : MenuScan(s)
    \/ \E s \in ScanIds : ScanLoaded(s)
    \/ \E s \in ScanIds : Extracted(s)
    \/ \E s \in ScanIds, r \in ScoreReplies : Reply(s, r)
    \/ \E s \in ScanIds : HistoryRead(s)
    \/ \E s \in ScanIds : HistorySaved(s)
    \/ \E s \in ScanIds : ScanResponse(s)
    \/ ClosePopup
    \/ OpenPopup

SpecHistory == InitHistory /\ [][NextHistory]_vars

C28_Bounded == Len(storage.scanHistory) <= 10

C28_SavedFirst ==
    storage'.scanHistory # storage.scanHistory =>
        /\ storage'.scanHistory # <<>>
        /\ storage'.scanHistory =
               Slice10(<<Head(storage'.scanHistory)>> \o storage.scanHistory)

\* C28: the stored history never has more than 10 entries, and each save puts
\* the scan it saves first and keeps the entries saved before it, the oldest
\* one leaving a full history: the history is the 10 most recently saved scans,
\* the latest first.
C28_LastTen == []C28_Bounded /\ [][C28_SavedFirst]_vars

----------------------------------------------------------------------------
(* The prompt.                                                             *)

\* The lengths of the text of a page, around the caps of the extractors and
\* of the prompt.
BodyLengths == {0, 999, 1000, 1001, 2000, 2001, 5000, 5001}
Strategies == {"primary", "fallback", "fallback-error", "minimal-tab-info"}

Chars(n) == [i \in 1..n |-> "x"]
ExtractionFailed == Chars(25)

\* The bodyText of the snapshot each extraction strategy returns for a page
\* whose text is innerText.
BodyTextOf(strategy, innerText) ==
    CASE strategy = "primary" -> Substring0(innerText, 5000)
      [] strategy = "fallback" -> Substring0(innerText, 2000)
      [] strategy = "fallback-error" -> <<>>
      [] OTHER -> ExtractionFailed

Snapshot(strategy, innerText, url) ==
    [PageData(url) EXCEPT !.bodyText = BodyTextOf(strategy, innerText)]

NoPrompt == [done |-> FALSE, prompt |-> buildAnalysisPrompt(PageData(""))]

InitPrompt ==
    /\ InitBackground
    /\ storage = InitStorage
    /\ pIn \in [strategy : Strategies, length : BodyLengths, url : FlagUrls]
    /\ pOut = NoPrompt

\* analyzeWithGemini builds the prompt for the snapshot of the page.
BuildPrompt ==
    /\ ~pOut.done
    /\ pOut' = [done |-> TRUE,
                prompt |-> buildAnalysisPrompt(
                               Snapshot(pIn.strategy, Chars(pIn.length), pIn.url))]
    /\ UNCHANGED <<popup, storage, changes, nChanges, bgVars, scannedTabs, badge, pageVars,
                   scans, ev, pIn>>

NextPrompt == BuildPrompt

SpecPrompt == InitPrompt /\ [][NextPrompt]_vars

\* The prompt states four bands that cover 0 to 100 and tells the model to
\* keep them to itself.
C29_Rubric ==
    pOut.done =>
        /\ Len(pOut.prompt.rubric.bands) = 4
        /\ pOut.prompt.rubric.bands[1].from = 0
        /\ pOut.prompt.rubric.bands[4].to = 100
        /\ \A i \in 1..3 :
               pOut.prompt.rubric.bands[i + 1].from = pOut.prompt.rubric.bands[i].to + 1
        /\ pOut.prompt.rubric.doNotReveal

\* The body text of the prompt has at most 1,000 characters.
C29_BodyCapped == pOut.done => Len(pOut.prompt.bodyText) <= 1000

\* The prompt tells the model not to trust the title and the body text of the
\* page over the technical signals.
C29_Distrust ==
    pOut.done =>
        "do not trust the page's title/body text over technical signals"
            \in pOut.prompt.instructions

\* C29: every prompt states the rubric of four bands, tells the model not to
\* reveal it and not to trust the page's own title and body text over the
\* technical signals, and carries at most 1,000 characters of body text
\* whichever strategy made the snapshot.
C29_Prompt == C29_Rubric /\ C29_BodyCapped /\ C29_Distrust

----------------------------------------------------------------------------
(* The popup's isScanning flag.                                            *)

\* The scan button clicked at any moment, with and without a stored key, the
\* popup closed and opened, and the scans ending with a result or an error.
NextPopup ==
    \/ scanCurrentPage
    \/ \E s \in ScanIds, found \in BOOLEAN : TabQueried(s, found)
    \/ \E s \in ScanIds : ScanLoaded(s)
    \/ \E s \in ScanIds : Extracted(s)
    \/ \E s \in ScanIds, r \in NavReplies : Reply(s, r)
    \/ \E s \in ScanIds : ScanResponse(s)
    \/ ClosePopup
    \/ OpenPopup

\* An extension whose model was never selected, with and without a key.
InitPopup == Init /\ storage.selectedModel = "none"

SpecPopup == InitPopup /\ [][NextPopup]_vars

\* isScanning is true exactly while scanCurrentPage stands at one of its
\* awaits: it is false again once the attempt has ended.
C30_Flag ==
    /\ popup.isScanning <=> popup.pc \in {"query", "response"}
    /\ popup.pc = "response" <=> popup.awaiting # 0

\* A click while isScanning is true changes nothing in the popup, and starts
\* no scan.
C30_ClickIgnored ==
    (ev' = ScanClick /\ popup.isScanning) => UNCHANGED <<popup, scans, storage>>

\* The 'scanPage' message is sent only by a popup that waits for no response.
C30_OneRequest ==
    (\E s \in ScanIds : scans[s].pc = "idle" /\ scans'[s].pc # "idle") =>
        /\ popup.pc = "query"
        /\ popup.awaiting = 0
        /\ popup'.pc = "response"

\* C30: the popup has one scan in flight at most: a click while isScanning is
\* true starts nothing and sends no message, and isScanning is false again
\* when the attempt has ended, with a result, an error response or a throw.
C30_OneAtATime == []C30_Flag /\ [][C30_ClickIgnored /\ C30_OneRequest]_vars

\* C30: the first attempt ended with an error response and the flag was
\* cleared; the second scan is in flight and a click has just been ignored.
C30_Witness ==
    /\ scans[1].pc = "failed"
    /\ popup.isScanning /\ popup.pc = "response" /\ popup.awaiting = 2
    /\ InFlight(2)
    /\ ev = ScanClick

----------------------------------------------------------------------------
(* The answers to runtime messages.                                        *)

\* The argument of a call of sendResponse: { result }, { content } or
\* { error }, "none" standing for a property the object does not have.
ResultResponse(result) == [result |-> result, content |-> "none", error |-> "none"]
ContentResponse(method) == [result |-> NoResult, content |-> method, error |-> "none"]
ErrorResponse(message) == [result |-> NoResult, content |-> "none", error |-> message]

\* The requests: the two the switch names, the content script's 'urlChanged',
\* and a message without an action.
Requests ==
    [action : {"scanPage", "getPageContent", "urlChanged", "none"},
     scanSource : {"none", "popup", "contextMenu"}]

NoAnswer == [pc |-> "idle", responses |-> <<>>]

InitMessage ==
    /\ InitBackground
    /\ pIn \in Requests
    /\ pOut = NoAnswer

\* handleMessage up to its first await: scanPage or getPageContent is called
\* and awaited, and any other action is answered at once.
handleMessage ==
    /\ pOut.pc = "idle"
    /\ IF pIn.action = "scanPage"
       THEN /\ StartScan(1, activeTab, OrStr(pIn.scanSource, "popup"))
            /\ pOut' = [pOut EXCEPT !.pc = "scanPage"]
       ELSE IF pIn.action = "getPageContent"
       THEN /\ pOut' = [pOut EXCEPT !.pc = "getPageContent"]
            /\ UNCHANGED scans
       ELSE /\ pOut' = [pc |-> "done",
                        responses |-> Append(pOut.responses, ErrorResponse("Unknown action"))]
            /\ UNCHANGED scans
    /\ UNCHANGED <<popup, storage, changes, nChanges, bgVars, scannedTabs, badge, pageVars,
                   ev, pIn>>

\* A handler whose catch block does not answer.
MessageScannedNoCatch(s) ==
    /\ pOut.pc = "scanPage"
    /\ scans[s].pc \in {"done", "failed"}
    /\ pOut' = [pc |-> "done",
                responses |-> IF scans[s].pc = "done"
                              THEN Append(pOut.responses, ResultResponse(scans[s].result))
                              ELSE pOut.responses]
    /\ UNCHANGED <<popup, storage, changes, nChanges, bgVars, scannedTabs, badge, pageVars,
                   scans, ev, pIn>>

\* handleMessage after scanPage: the result is sent, or the catch block sends
\* the message of the error thrown.
MessageScanned(s) ==
    /\ pOut.pc = "scanPage"
    /\ scans[s].pc \in {"done", "failed"}
    /\ pOut' = [pc |-> "done",
                responses |-> IF scans[s].pc = "done"
                              THEN Append(pOut.responses, ResultResponse(scans[s].result))
                              ELSE Append(pOut.responses,
                                          ErrorResponse(scans[s].error.kind))]
    /\ UNCHANGED <<popup, storage, changes, nChanges, bgVars, scannedTabs, badge, pageVars,
                   scans, ev, pIn>>

\* handleMessage after getPageContent: the snapshot is sent, or the catch
\* block sends the message of the error thrown.
MessageContent(o) ==
    /\ pOut.pc = "getPageContent"
    /\ pOut' = [pc |-> "done",
                responses |-> IF getPageContent(o) # "error"
                              THEN Append(pOut.responses, ContentResponse(getPageContent(o)))
                              ELSE Append(pOut.responses,
                                          ErrorResponse("Failed to extract page content"))]
    /\ UNCHANGED <<popup, storage, changes, nChanges, bgVars, scannedTabs, badge, pageVars,
                   scans, ev, pIn>>

\* One message, and the scan it asks for.
NextMessage ==
    \/ handleMessage
    \/ \E s \in ScanIds : ScanLoaded(s)
    \/ \E s \in ScanIds : Extracted(s)
    \/ \E s \in ScanIds, r \in NavReplies : Reply(s, r)
    \/ \E s \in ScanIds : HistoryRead(s)
    \/ \E s \in ScanIds : HistorySaved(s)
    \/ \E s \in ScanIds : MessageScanned(s)
    \/ \E o \in ExtractOutcomes : MessageContent(o)

SpecMessage == InitMessage /\ [][NextMessage]_vars

\* A handled message has one answer, which carries a result, a content or an
\* error and nothing else; a message not handled to its end has none yet; and
\* no behaviour ends before the message is handled to its end.
C31_OneAnswer ==
    /\ Len(pOut.responses) = (IF pOut.pc = "done" THEN 1 ELSE 0)
    /\ \A i \in 1..Len(pOut.responses) :
          /\ Cardinality({f \in {"result", "content", "error"} :
                             CASE f = "result" -> pOut.responses[i].result # NoResult
                               [] f = "content" -> pOut.responses[i].content # "none"
                               [] OTHER -> pOut.responses[i].error # "none"}) = 1
          /\ pIn.action = "scanPage" => pOut.responses[i].content = "none"
          /\ pIn.action = "getPageContent" => pOut.responses[i].result = NoResult
          /\ pIn.action \notin {"scanPage", "getPageContent"} =>
                 pOut.responses[i] = ErrorResponse("Unknown action")
    /\ ~ENABLED NextMessage => pOut.pc = "done"

\* The answer to a message with another action changes nothing.
C31_UnknownInert ==
    (pIn.action \notin {"scanPage", "getPageContent"}) =>
        UNCHANGED <<popup, storage, changes, nChanges, bgVars, scannedTabs, badge, pageVars,
                    scans>>

\* C31: every runtime message is answered exactly once: a 'scanPage' or a
\* 'getPageContent' request with the result or content, or else with an error,
\* and a request with any other action with the error 'Unknown action' and
\* without a change of state.
C31_AnsweredOnce == []C31_OneAnswer /\ [][C31_UnknownInert]_vars

\* C31: a 'scanPage' request answered with an error after its scan failed.
C31_Witness ==
    /\ pIn.action = "scanPage"
    /\ pOut.pc = "done"
    /\ scans[1].pc = "failed"
    /\ pOut.responses = <<ErrorResponse("All Gemini models failed")>>

----------------------------------------------------------------------------
(* The banner of a context-menu scan.                                      *)

\* Replies whose score lies in each band of the default thresholds, and one
\* whose score is a string that is no number.
ReplyHigh == Serialize(Js(90), <<>>)
ReplyNamed == ObjectText(JsStr(<<W("high")>>), JsArr(<<>>))
BannerReplies ==
    {[kind |-> "text", text |-> t] : t \in {ReplyJson, ReplyMid, ReplyHigh, ReplyNamed}}

\* An installed extension with thresholds saved by the sliders, or never saved.
InitBanner ==
    /\ Constructed({[InitStorage EXCEPT !.geminiApiKey = ApiKey, !.safeThreshold = a,
                                        !.cautionThreshold = c] :
                        a \in {0, SafeMin, SafeMax}, c \in {0, CautionMin, CautionMax}})
    /\ pIn = [text |-> ReplyProse, score |-> 0, reasoning |-> <<>>]
    /\ pOut = [done |-> FALSE, result |-> NoResult]

\* Context-menu scans, one at a time.
NextBanner ==
    \/ \E s \in ScanIds : SoloMenuClick(s)
    \/ \E s \in ScanIds : ScanLoaded(s)
    \/ \E s \in ScanIds : Extracted(s)
    \/ \E s \in ScanIds, r \in BannerReplies : Reply(s, r)
    \/ \E s \in ScanIds : HistoryRead(s)
    \/ \E s \in ScanIds : HistorySaved(s)

SpecBanner == InitBanner /\ [][NextBanner]_vars

\* The banner message that stands for the band of a badge.
BannerFor(b) ==
    CASE b = "danger" -> "showPhishingWarning"
      [] b = "caution" -> "showSuspiciousWarning"
      [] b = "safe" -> "showSafeIndicator"
      [] OTHER -> "none"

\* C32: the step that ends a successful context-menu scan sends the scanned
\* tab one banner message, whose kind stands for the band of the badge the
\* scan set: the phishing warning with the danger badge, the suspicious
\* warning with the caution badge, the safe indicator with the safe badge; and
\* no other step sends a banner.
C32_BannerAgrees ==
    [][/\ \A s \in ScanIds :
            (scans[s].pc = "banner" /\ scans'[s].pc = "done") =>
                /\ banner'[scans[s].tabId].kind = BannerFor(badge[scans[s].tabId])
                /\ \A t \in Tabs \ {scans[s].tabId} : banner'[t] = banner[t]
       /\ banner' # banner =>
            \E s \in ScanIds : scans[s].pc = "banner" /\ scans'[s].pc = "done"]_vars

----------------------------------------------------------------------------
(* The popup's notice of a phishing page.                                  *)

\* C33: when the popup tells the user of a phishing page to check the banner
\* on the page, the scanned page has the phishing warning banner.
C33_BannerShown ==
    ev.op = "phishingNotice" => banner[ev.tab].kind = "showPhishingWarning"

----------------------------------------------------------------------------
(* The banners in a page.                                                  *)

MaxBanners == 3

\* The element ids of the three banners and their auto-hide delays (ms).
BannerIds == {"phishguard-warning", "phishguard-suspicious", "phishguard-safe"}

\* The page: the banner elements in the document (el numbers the elements as
\* they are created), the content script's currentBanner (0 for null), the
\* timers set and not yet fired, each bound to the element of its closure,
\* the number of elements created so far, and the timer that fired last (its
\* element, and the number of elements created by then).
NoPage ==
    [dom |-> {}, currentBanner |-> 0, timers |-> {}, created |-> 0,
     fired |-> [el |-> 0, created |-> 0]]

Element(el, id) == [el |-> el, id |-> id, interacted |-> FALSE, hiding |-> FALSE]
Timer(el, stage) == [el |-> el, stage |-> stage]

\* removeBanner: currentBanner is removed if it is in the document, and so is
\* the first element found under each of the three ids.
removeBanner(page) ==
    [page EXCEPT
        !.dom = {x \in page.dom : x.el # page.currentBanner /\ x.id \notin BannerIds},
        !.currentBanner = IF \E x \in page.dom : x.el = page.currentBanner THEN 0 ELSE @]

InitPage ==
    /\ InitBackground
    /\ storage = InitStorage
    /\ pIn = [text |-> ReplyProse, score |-> 0, reasoning |-> <<>>]
    /\ pOut = NoPage

PageUnchanged ==
    UNCHANGED <<popup, storage, changes, nChanges, bgVars, scannedTabs, badge, pageVars, scans,
                ev, pIn>>

\* A createBanner that leaves the banners of the page where they are.
createBannerKeeping(id) ==
    /\ pOut.created < MaxBanners
    /\ pOut' = [dom |-> pOut.dom \cup {Element(pOut.created + 1, id)},
                currentBanner |-> pOut.created + 1,
                timers |-> pOut.timers \cup {Timer(pOut.created + 1, "autoHide")},
                created |-> pOut.created + 1, fired |-> pOut.fired]
    /\ PageUnchanged

\* createBanner(id, ...): the banners in the page are removed, the new element
\* is appended and becomes currentBanner, and its auto-hide timer is set.
createBanner(id) ==
    /\ pOut.created < MaxBanners
    /\ pOut' = [dom |-> removeBanner(pOut).dom \cup {Element(pOut.created + 1, id)},
                currentBanner |-> pOut.created + 1,
                timers |-> pOut.timers \cup {Timer(pOut.created + 1, "autoHide")},
                created |-> pOut.created + 1, fired |-> pOut.fired]
    /\ PageUnchanged

\* The pointer enters a banner.
MouseEnter(el) ==
    /\ \E x \in pOut.dom : x.el = el /\ ~x.interacted
    /\ pOut' = [pOut EXCEPT !.dom = {IF x.el = el THEN [x EXCEPT !.interacted = TRUE] ELSE x :
                                        x \in pOut.dom}]
    /\ PageUnchanged

\* The auto-hide timer of the element el fires: if the element is still in the
\* document and the user did not interact with it, it starts to hide and the
\* timer of its removal is set.
AutoHide(el) ==
    /\ Timer(el, "autoHide") \in pOut.timers
    /\ IF \E x \in pOut.dom : x.el = el /\ ~x.interacted
       THEN pOut' = [pOut EXCEPT
                !.dom = {IF x.el = el THEN [x EXCEPT !.hiding = TRUE] ELSE x : x \in pOut.dom},
                !.timers = (@ \ {Timer(el, "autoHide")}) \cup {Timer(el, "remove")},
                !.fired = [el |-> el, created |-> pOut.created]]
       ELSE pOut' = [pOut EXCEPT !.timers = @ \ {Timer(el, "autoHide")},
                                 !.fired = [el |-> el, created |-> pOut.created]]
    /\ PageUnchanged

\* The timer of the removal fires: the element is removed if it is still in
\* the document.
AutoRemove(el) ==
    /\ Timer(el, "remove") \in pOut.timers
    /\ pOut' = [pOut EXCEPT !.dom = {x \in @ : x.el # el},
                            !.timers = @ \ {Timer(el, "remove")},
                            !.fired = [el |-> el, created |-> pOut.created]]
    /\ PageUnchanged

\* A click on a button of the banner that removes it (X, 'Continue Anyway').
CloseClick(el) ==
    /\ \E x \in pOut.dom : x.el = el
    /\ pOut' = [pOut EXCEPT !.dom = {x \in @ : x.el # el}]
    /\ PageUnchanged

NextPage ==
    \/ \E id \in BannerIds : createBanner(id)
    \/ \E el \in 1..MaxBanners : MouseEnter(el)
    \/ \E el \in 1..MaxBanners : AutoHide(el)
    \/ \E el \in 1..MaxBanners : AutoRemove(el)
    \/ \E el \in 1..MaxBanners : CloseClick(el)

SpecPage == InitPage /\ [][NextPage]_vars

C34_AtMostOne == Cardinality(pOut.dom) <= 1

\* A step that creates a banner leaves it the only one, and a step in which a
\* timer fires removes no banner but the one the timer was set for.
C34_OwnTimer ==
    /\ pOut'.created # pOut.created =>
          pOut'.dom = {Element(pOut'.created, x.id) : x \in pOut'.dom}
    /\ (pOut'.created = pOut.created /\ pOut'.timers # pOut.timers) =>
          \A x \in pOut.dom :
              (\A y \in pOut'.dom : y.el # x.el) =>
                  \E tm \in pOut.timers \ pOut'.timers : tm.el = x.el

\* C34: a page has at most one banner at any time: showing a banner removes
\* the one there is, and the auto-hide timer of an earlier banner removes no
\* banner created after it.
C34_OneBanner == []C34_AtMostOne /\ [][C34_OwnTimer]_vars

\* C34: the auto-hide timer of the first banner has just fired, after the
\* second banner was created, and the second banner is in the page.
C34_Witness ==
    /\ pOut.fired = [el |-> 1, created |-> 2]
    /\ pOut.dom = {Element(2, "phishguard-safe")}

----------------------------------------------------------------------------
(* The bands of one context-menu scan while the thresholds change.        *)

\* Context-menu scans, one at a time, while the safe slider is moved or the
\* thresholds are reset and the change reaches the background at any moment.
NextBands ==
    \/ \E s \in ScanIds : SoloMenuClick(s)
    \/ \E s \in ScanIds : ScanLoaded(s)
    \/ \E s \in ScanIds : Extracted(s)
    \/ \E s \in ScanIds, r \in ScoreReplies : Reply(s, r)
    \/ \E s \in ScanIds : HistoryRead(s)
    \/ \E s \in ScanIds : HistorySaved(s)
    \/ \E v \in {SafeMin, SafeMax} : SafeChange(v)
    \/ ResetClick
    \/ SaveDone
    \/ handleStorageChange

SpecBands == InitNav /\ [][NextBands]_vars

\* C35: when a context-menu scan ends, the badge it set, the verdict it saved
\* to the history and the banner it sends stand for the same band.
C35_OneBand ==
    [][\A s \in ScanIds :
          (scans[s].pc = "banner" /\ scans'[s].pc = "done") =>
              /\ scans[s].hist[1].verdict = BadgeVerdict(badge[scans[s].tabId])
              /\ banner'[scans[s].tabId].kind = BannerFor(badge[scans[s].tabId])]_vars

----------------------------------------------------------------------------
(* Scans that fail.                                                        *)

\* An extension whose model was never selected, with and without a key.
InitFail == Init /\ storage.selectedModel = "none"

\* The user goes to another tab, tab 2 showing a page of the browser itself:
\* handleTabActivated({tabId: t}) draws the badge of the tab's entry.
SwitchTab(t) ==
    /\ t # activeTab
    /\ activeTab' = t
    /\ tabUrl' = [tabUrl EXCEPT ![2] = UrlX]
    /\ badge' = [badge EXCEPT ![t] =
                    IF t \in DOMAIN scannedTabs
                    THEN BadgeOf(scannedTabs[t], safeThreshold, cautionThreshold) ELSE ""]
    /\ ev' = [op |-> "tabActivated", tab |-> t]
    /\ UNCHANGED <<popup, storage, changes, nChanges, bgVars, scannedTabs, tabEvents, nNav,
                   lastUrl, banner, urlMsgs, scans, parseVars>>

\* Scans from both sources, one at a time, that succeed or fail at the key,
\* at the url, at the extraction or at the last tier.
NextFail ==
    \/ \E s \in ScanIds : handleMessageScanPage(s)
    \/ \E s \in ScanIds : SoloMenuClick(s)
    \/ \E s \in ScanIds : ScanLoaded(s)
    \/ \E s \in ScanIds : Extracted(s)
    \/ \E s \in ScanIds, r \in NavReplies : Reply(s, r)
    \/ \E s \in ScanIds : HistoryRead(s)
    \/ \E s \in ScanIds : HistorySaved(s)
    \/ \E t \in Tabs : SwitchTab(t)

SpecFail == InitFail /\ [][NextFail]_vars

\* A step of a scan on its way to the result that does not give it a result
\* leaves the scan store, the badges, the history and the banners alone.
C36_NoWrite ==
    \A s \in ScanIds :
        (/\ scans[s].pc \in {"load", "extract", "fetch"}
         /\ scans'[s] # scans[s]
         /\ scans'[s].pc \notin {"done", "history"})
            => /\ scannedTabs' = scannedTabs
               /\ badge' = badge
               /\ banner' = banner
               /\ storage'.scanHistory = storage.scanHistory

\* A failed scan has no result and no history entry, and takes no more steps.
C36_Failed ==
    \A s \in ScanIds :
        scans[s].pc = "failed" =>
            /\ scans[s].result = NoResult
            /\ scans[s].hist = <<>>
            /\ scans[s].error.kind \in
                   {"API key not configured", "Cannot scan this type of page",
                    "Failed to extract page content", "All Gemini models failed"}

\* C36: a scan that fails, at the key, at the url, at the extraction or at the
\* last tier, writes nothing: the entry and the badge of the tab stay as they
\* were, and it makes no history entry and no banner.
C36_FailureInert == []C36_Failed /\ [][C36_NoWrite]_vars

\* C36: the first scan of tab 1 succeeded, the second one ran out of tiers,
\* and the entry and the badge are those of the first.
C36_Witness ==
    /\ scans[1].pc = "done" /\ scans[1].tabId = 1
    /\ scans[2].pc = "failed" /\ scans[2].tabId = 1
    /\ scans[2].error.kind = "All Gemini models failed"
    /\ scannedTabs[1] = scans[1].result
    /\ badge[1] = BadgeOf(scans[1].result, safeThreshold, cautionThreshold)

\* ---------------------------------------------------------------------
\* The shipped default tier
\* ---------------------------------------------------------------------

\* An installation that never selected a model: loadSettings falls back to
\* GEMINI_CONFIG.defaultModel. One scan at a time, from the popup or the
\* context menu, with every kind of reply.
NextDefault ==
    \/ \E s \in ScanIds : handleMessageScanPage(s)
    \/ \E s \in ScanIds : SoloMenuClick(s)
    \/ \E s \in ScanIds : ScanLoaded(s)
    \/ \E s \in ScanIds : Extracted(s)
    \/ \E s \in ScanIds, r \in TierReplies : Reply(s, r)
    \/ \E s \in ScanIds : HistoryRead(s)
    \/ \E s \in ScanIds : HistorySaved(s)
    \/ \E t \in Tabs : SwitchTab(t)

SpecDefault == InitFail /\ [][NextDefault]_vars

\* C37: with the shipped default selected tier, a scan whose first attempt
\* fails (a transport failure or an empty reply) makes an attempt on another
\* tier: a scan that gave up on the remote models tried at least two of them.
C37_FallbackLeft ==
    \A s \in ScanIds :
        (/\ selectedModel = defaultModel
         /\ scans[s].pc = "failed"
         /\ scans[s].error.kind = "All Gemini models failed")
        => Len(scans[s].tried) >= 2

\* ---------------------------------------------------------------------
\* Every successful scan in the history
\* ---------------------------------------------------------------------

\* The entries of the stored history made by the scans of this run, and the
\* scans that returned a result.
Recorded ==
    {i \in 1..Len(storage.scanHistory) :
        storage.scanHistory[i] \notin {OldItem(j) : j \in 1..10}}
Succeeded == {s \in ScanIds : scans[s].pc = "done"}

\* C38: every successful scan is recorded in the scan history exactly once,
\* whatever its source, and none is lost while fewer than 10 newer scans
\* followed it: once no scan is in flight and the popup awaits no response,
\* the history holds one entry for each scan that returned a result.
C38_RecordedOnce ==
    (Quiet /\ popup.pc # "response") => Cardinality(Recorded) = Cardinality(Succeeded)

====
